---------------------------- MODULE Spec2Model ----------------------------
(***************************************************************************)
(* WatchFinder: the listing store (database.py), the source adapters       *)
(* (scraper.py) and the scrape endpoint (app.py) as state machines.        *)
(*                                                                         *)
(*   Spec         concurrent upsert_listing calls on the listings table    *)
(*   SpecAdapter  one adapter run (forum or community feed), its pooled    *)
(*                detail fetches and its sequential upserts                *)
(*   SpecPool     a forum run on an index page with more new threads than  *)
(*                the pool has workers                                     *)
(*   SpecAdapterFair  SpecAdapter with the run's steps scheduled fairly    *)
(*   SpecImage    _fetch_image calls on the image cache                    *)
(*   SpecPrice    one call of rate_price, check_price or                   *)
(*                enrich_with_price                                        *)
(*   SpecAll      run_all_scrapers over the two adapters                   *)
(*   SpecExtract  one call of a field extractor on a text                  *)
(*   SpecPure     the field extractors called on one text repeatedly       *)
(*   SpecFill     backfill_reddit_prices on a table of stored rows         *)
(*   SpecTurns    a forum run, or run_all_scrapers, step by step           *)
(*   SpecGet      one call of _get on the answers of the network           *)
(*   SpecPick     one call of _fetch_op_comment on a comment thread        *)
(*   SpecMarkup   a forum run on index pages as _parse_forum_page reads    *)
(*                them                                                     *)
(*   SpecApp      POST /api/scrape requests and the threads they start     *)
(*                (app.py)                                                 *)
(*   SpecRace     pool workers in _fetch_image on one URL                  *)
(***************************************************************************)
EXTENDS Integers, Sequences, FiniteSets, TLC

(***************************************************************************)
(* Bounds of the model.                                                    *)
(***************************************************************************)
MaxCalls == 3          \* upsert_listing calls in one behaviour
MaxPages == 2          \* the largest page count a run is given
MaxPageLen == 2        \* stubs on an index page (the overflow page apart)
PoolOverflow == 1      \* stubs of the overflow page beyond the pool's size
MaxListings == 3       \* listings on a marketplace page
MaxShots == 2          \* _fetch_image calls in one behaviour
MaxFaults == 1         \* item-level failures injected into one run
MaxCount == 1          \* the largest counter of an adapter's stats
MaxWords == 3          \* words of a text given to extract_brand
MaxRepeat == 2         \* repeated calls of extractors on one text
MaxAnswers == 3        \* requests the network has an answer for
MaxComments == 3       \* top-level comments of a thread
MaxRequests == 3       \* POST /api/scrape requests
MaxAcquirers == 2      \* pool workers in _fetch_image on one URL

NULL == "NULL"

\* An optional value (None or a value) is a sequence of length 0 or 1.
None == <<>>
Some(v) == <<v>>

\* The threads that call upsert_listing concurrently (request handlers of
\* the threaded web server, the scrape thread).
Callers == {"t1", "t2"}
\* Listing URLs, numbered.
Urls == 1..2
SourceIds == {"RolexForums BST", "Reddit r/Watchexchange"}

\* What one observation of a listing yields for its mutable columns: a first
\* sighting without a price, a later one with the price found.
Observations ==
    {[title |-> <<"FS", "rolex", "submariner">>, price |-> None,
      price_rating |-> NULL],
     [title |-> <<"FS", "rolex", "submariner", "2007">>, price |-> Some(8500),
      price_rating |-> "Good"]}

Payload(url, src, obs) ==
    [listing_url |-> url, source_id |-> src, title |-> obs.title,
     price |-> obs.price, price_rating |-> obs.price_rating]

\* The payloads handed to upsert_listing: data["listing_url"] and the fields
\* read with data.get(...).  Every payload of URL 1, and the payloads of
\* URL 2 from one source.
Payloads ==
    {Payload(1, src, obs) : src \in SourceIds, obs \in Observations}
    \cup {Payload(2, "RolexForums BST", obs) : obs \in Observations}

VARIABLES
    listings,    \* the listings table: a set of rows
    nextId,      \* AUTOINCREMENT: the next rowid of listings
    clock,       \* datetime.utcnow(): every call reads a later time
    call,        \* call[c]: caller c's position in upsert_listing
    nCalls,      \* upsert_listing calls started so far
    nDone,       \* upsert_listing calls completed so far
    log,         \* the two calls completed last, in completion order
    \* one adapter run (scraper.py)
    adapter,     \* "forum" (RolexForumsScraper) or "reddit"
    scrape_do,   \* SCRAPE_DO_KEY is set: _get routes through the proxy
    pages,       \* run(pages=...)
    site,        \* the stub lists the source's index pages may parse to
    faultsLeft,  \* item-level failures the environment may still inject
    pc,          \* where run() is
    page_num,    \* the loop variable of the pagination loop
    stats,       \* the run's stats dict
    store,       \* the listings table as the run sees it, by listing_url
    stubs,       \* forum: new_stubs of the page; feed: children of the page
    task,        \* forum: the futures of the page's pool, by stub index
    processed,   \* forum: processed; feed: the index of the next child
    new_on_page, \* feed: new_on_page
    after,       \* feed: the cursor token
    progress,    \* the last event given to progress_callback
    last_scraped,\* mark_source_scraped calls of the run
    nIndex,      \* index-page fetches of the run so far
    nDetail,     \* detail fetches (thread pages, comment threads) so far
    fetchLog,    \* forum: by url, the detail fetches and upserts of the run
    lastIndex,   \* what the last index-page fetch met, and the stats before it
    lastPage,    \* feed: the cursor and new_on_page of the page processed last
    \* the image acquirer (BaseScraper._fetch_image)
    cache,       \* the files of IMAGE_DIR: <<url hash, extension>>
    nNet,        \* network requests made so far
    nShots,      \* _fetch_image calls so far
    shots,       \* the two _fetch_image calls made last, in order
    \* one call into the price resolver (price_checker.py, enrich_with_price)
    job,         \* the call: the function and its arguments
    answered,    \* the call has returned (or raised)
    verdict,     \* rate_price: the label returned
    quote,       \* check_price: the stages queried, what they met, the result
    item,        \* enrich_with_price: the listing returned
    \* the orchestrator (run_all_scrapers)
    sources,     \* the source filter; {} is None or the empty list
    orch,        \* where run_all_scrapers is
    nextCls,     \* the next entry of scraper_classes the loop takes
    all_stats,   \* all_stats
    combined,    \* the combined stats returned
    tried,       \* the source names whose adapter class was called
    started,     \* the source names whose run() was called
    failed,      \* the source names whose construction or run raised
    \* the field extractors (scraper.py, extract_price .. is_for_sale)
    doc,         \* the text the extractors are called on
    extracted,   \* extracted[f]: what the last call of extractor f returned
    again,       \* the caller calls extractors more than once
    nRepeat,     \* calls of an extractor that was called before
    \* the backfill (backfill_reddit_prices)
    watches,     \* the listings table of watches.db, by id
    atStart,     \* the listings table when the backfill was called
    rows,        \* rows: those of the SELECT the loop has not taken yet
    tally,       \* the backfill's stats dict
    fillpc,      \* where backfill_reddit_prices is
    \* one call of the fetch primitive (BaseScraper._get)
    wire,        \* SCRAPE_DO_KEY is set or not, and what the network answers
    got,         \* the requests the call sent and what it returned
    \* one call of _fetch_op_comment
    reply,       \* op_author, and the comment thread Reddit answers with
    picked,      \* the call has returned: the comment body returned
    \* the web application's scrape endpoint (app.py)
    scrape_lock, \* _scrape_lock is held
    scrape_status, \* _scrape_status: running, progress, last_result
    runner,      \* by request: where the thread it started is in _run
    httpReply,   \* what the last POST /api/scrape was answered
    \* pool workers in _fetch_image on one URL
    disk,        \* the cache files of the URL's hash: extension -> contents
    acquirer     \* by worker: where it is in _fetch_image, and its result

dbVars == <<listings, nextId, clock, call, nCalls, nDone, log>>

runVars ==
    <<adapter, scrape_do, pages, site, faultsLeft, pc, page_num, stats, store, stubs, task,
      processed, new_on_page, after, progress, last_scraped, nIndex, nDetail,
      fetchLog, lastIndex, lastPage>>

imageVars == <<cache, nNet, nShots, shots>>

priceVars == <<job, answered, verdict, quote, item>>

orchVars == <<sources, orch, nextCls, all_stats, combined, tried, started, failed>>

extractVars == <<doc, extracted, again, nRepeat>>

fillVars == <<watches, atStart, rows, tally, fillpc>>

getVars == <<wire, got>>

pickVars == <<reply, picked>>

appVars == <<scrape_lock, scrape_status, runner, httpReply>>

raceVars == <<disk, acquirer>>

restVars == <<getVars, pickVars, appVars, raceVars>>

toolVars == <<imageVars, priceVars, orchVars, extractVars, fillVars, restVars>>

vars == <<dbVars, runVars, toolVars>>

Idle == [pc |-> "idle", data |-> NULL, now |-> 0, existing |-> None, start |-> 0]

(***************************************************************************)
(* database.py                                                             *)
(***************************************************************************)

RowsOf(table, url) == {r \in table : r.listing_url = url}

\* SELECT id FROM listings WHERE listing_url = ? ... fetchone(): the ids the
\* query may return; None when no row matches.
SelectExisting(table, url) ==
    IF RowsOf(table, url) = {} THEN {None}
    ELSE {Some(r.id) : r \in RowsOf(table, url)}

\* listing_url TEXT UNIQUE: an INSERT of a URL the table already holds fails.
UniqueViolationDropped(table, url) == FALSE

UniqueViolation(table, url) == RowsOf(table, url) # {}

\* The UPDATE of upsert_listing, on one row: the columns of its SET list.
UpdatedRowResetsProvenance(r, data, now) ==
    [r EXCEPT !.title = data.title, !.price = data.price,
              !.price_rating = data.price_rating, !.is_active = TRUE,
              !.source_id = data.source_id, !.date_found = now]

UpdatedRowKeepsInactive(r, data, now) ==
    [r EXCEPT !.title = data.title, !.price = data.price,
              !.price_rating = data.price_rating]

UpdatedRow(r, data, now) ==
    [r EXCEPT !.title = data.title, !.price = data.price,
              !.price_rating = data.price_rating, !.is_active = TRUE]

\* UPDATE listings SET ... WHERE listing_url = ?
UpdateListing(table, data, now) ==
    {IF r.listing_url = data.listing_url THEN UpdatedRow(r, data, now) ELSE r
        : r \in table}

\* The row of INSERT INTO listings (...): is_active takes its DEFAULT 1.
InsertedRow(id, data, now) ==
    [id |-> id, listing_url |-> data.listing_url, source_id |-> data.source_id,
     title |-> data.title, price |-> data.price,
     price_rating |-> data.price_rating, date_found |-> now,
     is_active |-> TRUE]

\* The mutable columns of a row.
Mutable(r) ==
    [title |-> r.title, price |-> r.price, price_rating |-> r.price_rating,
     is_active |-> r.is_active]

LastTwo(s) == IF Len(s) > 2 THEN Tail(s) ELSE s

\* upsert_listing, lines 73-77: now = utcnow(), then the existence check.
UpsertSelect(c) ==
    /\ call[c].pc = "idle"
    /\ nCalls < MaxCalls
    /\ \E data \in Payloads :
        \E ex \in SelectExisting(listings, data.listing_url) :
          call' = [call EXCEPT ![c] =
                      [pc |-> "write", data |-> data, now |-> clock,
                       existing |-> ex, start |-> nDone]]
    /\ nCalls' = nCalls + 1
    /\ clock' = clock + 1
    /\ UNCHANGED <<listings, nextId, nDone, log, runVars, toolVars>>

\* upsert_listing, lines 79-121: the UPDATE or the INSERT, and the commit at
\* the end of the with block.  A rejected INSERT raises sqlite3.IntegrityError
\* out of the call.
UpsertWrite(c) ==
    /\ call[c].pc = "write"
    /\ LET data == call[c].data
           url == data.listing_url
           before == RowsOf(listings, url)
           Done(outcome, id, table) ==
               /\ listings' = table
               /\ log' = LastTwo(Append(log,
                     [caller |-> c, data |-> data, outcome |-> outcome,
                      id |-> id, start |-> call[c].start, seq |-> nDone + 1,
                      existed |-> before # {},
                      rowsAfter |-> RowsOf(table, url)]))
       IN  IF call[c].existing # None
           THEN /\ Done("updated", call[c].existing,
                        UpdateListing(listings, data, call[c].now))
                /\ nextId' = nextId
           ELSE IF UniqueViolation(listings, url)
           THEN /\ Done("IntegrityError", None, listings)
                /\ nextId' = nextId
           ELSE /\ Done("new", Some(nextId),
                        listings \cup {InsertedRow(nextId, data, call[c].now)})
                /\ nextId' = nextId + 1
    /\ call' = [call EXCEPT ![c] = Idle]
    /\ nDone' = nDone + 1
    /\ UNCHANGED <<clock, nCalls, runVars, toolVars>>

\* The maintenance process outside the repository that flips is_active to
\* false when a listing disappears from its source.
Deactivate ==
    /\ \E r \in listings :
          /\ r.is_active
          /\ listings' = (listings \ {r}) \cup {[r EXCEPT !.is_active = FALSE]}
    /\ UNCHANGED <<nextId, clock, call, nCalls, nDone, log, runVars, toolVars>>

DbInit ==
    /\ listings = {}
    /\ nextId = 1
    /\ clock = 0
    /\ call = [c \in Callers |-> Idle]
    /\ nCalls = 0
    /\ nDone = 0
    /\ log = <<>>

\* No image has been acquired.
NoImage ==
    /\ cache = {}
    /\ nNet = 0
    /\ nShots = 0
    /\ shots = <<>>

\* No call into the price resolver.
NoPrice ==
    /\ job = [op |-> "none"]
    /\ answered = TRUE
    /\ verdict = None
    /\ quote = None
    /\ item = None

\* run_all_scrapers is not running.
NoOrch ==
    /\ sources = {}
    /\ orch = "idle"
    /\ nextCls = 0
    /\ all_stats = <<>>
    /\ combined = None
    /\ tried = {}
    /\ started = {}
    /\ failed = {}

\* No text is in hand.
NoExtract ==
    /\ doc = <<>>
    /\ extracted = <<>>
    /\ again = FALSE
    /\ nRepeat = 0

\* backfill_reddit_prices is not running.
NoFill ==
    /\ watches = <<>>
    /\ atStart = <<>>
    /\ rows = <<>>
    /\ tally = <<>>
    /\ fillpc = "idle"

\* No call of _get is followed.
NoGet ==
    /\ wire = <<>>
    /\ got = None

\* No call of _fetch_op_comment is followed.
NoPick ==
    /\ reply = <<>>
    /\ picked = None

\* The web application is not followed.
NoApp ==
    /\ scrape_lock = FALSE
    /\ scrape_status = <<>>
    /\ runner = <<>>
    /\ httpReply = None

\* No concurrent image acquisition is followed.
NoRace ==
    /\ disk = <<>>
    /\ acquirer = <<>>

NoRest == NoGet /\ NoPick /\ NoApp /\ NoRace

NoTools == NoImage /\ NoPrice /\ NoOrch /\ NoExtract /\ NoFill /\ NoRest

\* No adapter runs.
Stopped ==
    /\ adapter = "none"
    /\ pages = 0
    /\ site = {}
    /\ faultsLeft = 0
    /\ pc = "returned"
    /\ page_num = 0
    /\ stats = <<>>
    /\ store = <<>>
    /\ stubs = <<>>
    /\ task = <<>>
    /\ processed = 0
    /\ new_on_page = 0
    /\ after = NULL
    /\ progress = None
    /\ last_scraped = 0
    /\ nIndex = 0
    /\ nDetail = 0
    /\ fetchLog = <<>>
    /\ lastIndex = None
    /\ lastPage = None

NoRun == scrape_do = FALSE /\ Stopped

Init == DbInit /\ NoRun /\ NoTools

Next ==
    \/ \E c \in Callers : UpsertSelect(c)
    \/ \E c \in Callers : UpsertWrite(c)
    \/ Deactivate

Spec == Init /\ [][Next]_vars

(***************************************************************************)
(* price_checker.py                                                        *)
(***************************************************************************)

\* The thresholds, in percent of the market price.
GREAT_THRESHOLD == 90
GOOD_THRESHOLD == 100
FAIR_THRESHOLD == 110

\* ratio <= threshold, where ratio = listing_price / market_price and
\* market_price > 0.
RatioAtMostStrict(listing_price, market_price, threshold) ==
    100 * listing_price < threshold * market_price

RatioAtMost(listing_price, market_price, threshold) ==
    100 * listing_price <= threshold * market_price

\* rate_price: the label.
rate_price(listing_price, market_price) ==
    IF market_price <= 0 THEN "N/A"
    ELSE IF RatioAtMost(listing_price, market_price, GREAT_THRESHOLD)
    THEN "Great"
    ELSE IF RatioAtMost(listing_price, market_price, GOOD_THRESHOLD)
    THEN "Good"
    ELSE IF RatioAtMost(listing_price, market_price, FAIR_THRESHOLD)
    THEN "Fair"
    ELSE "High"

\* round(ratio * 100, 1), in tenths of a percent (a tie rounds up).
pct_of_market(listing_price, market_price) ==
    (2000 * listing_price + market_price) \div (2 * market_price)

\* A JSON value where a price is looked for: absent (or null), a number, or
\* a text that is no number.
Absent == [kind |-> "absent", v |-> 0]
Num(n) == [kind |-> "num", v |-> n]
Text == [kind |-> "text", v |-> 0]

\* Python truth of such a value.
Truthy(val) == val.kind = "text" \/ (val.kind = "num" /\ val.v # 0)

\* isinstance(p, (int, float)) and p > 0
PositiveNumber(val) == val.kind = "num" /\ val.v > 0

\* The listings a marketplace page may hold: their price and amount fields.
ItemUniverse ==
    {[price |-> Num(100), amount |-> Absent],
     [price |-> Num(200), amount |-> Absent],
     [price |-> Num(300), amount |-> Absent],
     [price |-> Num(0), amount |-> Num(250)],
     [price |-> Num(-50), amount |-> Absent],
     [price |-> Text, amount |-> Num(150)]}

MarketPages == UNION {[1..n -> ItemUniverse] : n \in 0..MaxListings}

\* p = item.get("price") or item.get("amount")
PriceOf(it) == IF Truthy(it.price) THEN it.price ELSE it.amount

\* Lines 177-181: the positive prices of the page, in page order.
PositivePrices(page_items) ==
    LET kept == SelectSeq(page_items, LAMBDA it : PositiveNumber(PriceOf(it)))
    IN  [i \in DOMAIN kept |-> PriceOf(kept[i]).v]

RECURSIVE Insert(_, _)
Insert(sorted, x) ==
    IF sorted = <<>> THEN <<x>>
    ELSE IF x <= Head(sorted) THEN <<x>> \o sorted
    ELSE <<Head(sorted)>> \o Insert(Tail(sorted), x)

\* prices.sort()
RECURSIVE Sorted(_)
Sorted(s) == IF s = <<>> THEN <<>> ELSE Insert(Sorted(Tail(s)), Head(s))

\* mid = len(prices) // 2, as an index from 1.
MidLower(n) == (n + 1) \div 2

Mid(n) == (n \div 2) + 1

\* _get_market_price_from_marketplace: page is None when the request failed
\* or the page held no data.
get_market_price_from_marketplace(page) ==
    IF page = None THEN None
    ELSE LET prices == PositivePrices(page[1])
         IN  IF prices = <<>> THEN None
             ELSE Some(Sorted(prices)[Mid(Len(prices))])

\* What _search_watchcharts may return as results[0], or None for no result:
\* whether the result has a slug or id, and its market_price/price value.
SearchAnswers ==
    {None} \cup
    {Some([slug |-> sl, raw_price |-> raw]) :
        sl \in BOOLEAN, raw \in {Absent, Num(1000), Num(-5), Text}}

\* _get_market_price_from_chart: a positive price, or None.
ChartAnswers == {None, Some(1100)}

MarketAnswers == {None} \cup {Some(page) : page \in MarketPages}

\* What the network would answer to each stage.
Webs == [search : SearchAnswers, chart : ChartAnswers, market : MarketAnswers]

NoData ==
    [outcome |-> "returned", rating |-> "N/A", market_price |-> None,
     pct_of_market |-> None, watchcharts_url |-> NULL, source |-> "none"]

Raised ==
    [outcome |-> "raised", rating |-> NULL, market_price |-> None,
     pct_of_market |-> None, watchcharts_url |-> NULL, source |-> NULL]

\* Line 255: the marketplace is asked when no market price was found so far.
AsksMarketplaceAlways(market_price) == TRUE

AsksMarketplace(market_price) == market_price = None

\* check_price(listing_price) on a network answering as web does: the stages
\* queried in order, the market price each of them gave, what the
\* marketplace page held when it was queried, and the result (or the
\* exception of float() on a price that is no number).
check_price(listing_price, web) ==
    IF listing_price <= 0
    THEN [asking |-> listing_price, stages |-> <<>>, yields |-> <<>>,
          page |-> None, result |-> NoData]
    ELSE
    LET results == web.search # None
        best == web.search[1]
        raises == results /\ best.raw_price.kind = "text"
        priced == results /\ PositiveNumber(best.raw_price)
        charted == results /\ ~priced /\ ~raises /\ best.slug
        found1 == IF priced THEN Some(best.raw_price.v)
                  ELSE IF charted THEN web.chart
                  ELSE None
        source1 == IF priced THEN "search_result"
                   ELSE IF charted /\ web.chart # None THEN "chart_page"
                   ELSE "none"
        url1 == IF results /\ best.slug THEN "watchcharts.com/watches/slug"
                ELSE NULL
        asks == ~raises /\ AsksMarketplace(found1)
        median == get_market_price_from_marketplace(web.market)
        found2 == IF asks /\ median # None THEN median ELSE found1
        source2 == IF asks /\ median # None THEN "marketplace_median"
                   ELSE source1
        url2 == IF asks /\ median # None
                THEN "marketplace.watchcharts.com/listings" ELSE url1
        stages == <<"search">>
                  \o (IF charted THEN <<"chart">> ELSE <<>>)
                  \o (IF asks THEN <<"marketplace">> ELSE <<>>)
        yields == <<IF priced THEN Some(best.raw_price.v) ELSE None>>
                  \o (IF charted THEN <<web.chart>> ELSE <<>>)
                  \o (IF asks THEN <<median>> ELSE <<>>)
    IN  [asking |-> listing_price,
         stages |-> stages,
         yields |-> yields,
         page |-> IF asks THEN web.market ELSE None,
         result |->
            IF raises THEN Raised
            ELSE IF found2 = None THEN NoData
            ELSE [outcome |-> "returned",
                  rating |-> rate_price(listing_price, found2[1]),
                  market_price |-> found2,
                  pct_of_market |-> Some(pct_of_market(listing_price, found2[1])),
                  watchcharts_url |-> url2,
                  source |-> source2]]

(***************************************************************************)
(* scraper.py: helpers                                                     *)
(***************************************************************************)

TARGET_YEAR == 2007
MAX_WORKERS == 5

\* Titles and flairs are sequences of words.  str.lower() and str.upper()
\* on the words of the model.
Lower(w) ==
    CASE w = "FS" -> "fs" [] w = "WTB" -> "wtb" [] w = "WTS" -> "wts"
      [] w = "Rolex" -> "rolex" [] w = "Royal" -> "royal"
      [] w = "USD" -> "usd" [] w = "Mint" -> "mint" [] w = "SS" -> "ss"
      [] w = "K" -> "k" [] w = "OP" -> "op"
      [] w = "AutoModerator" -> "automoderator"
      [] OTHER -> w

Upper(w) ==
    CASE w = "fs" -> "FS" [] w = "wtb" -> "WTB" [] w = "wts" -> "WTS"
      [] w = "iso" -> "ISO" [] OTHER -> w

Occurs(m, t) ==
    \E i \in 1..(Len(t) - Len(m) + 1) : SubSeq(t, i, i + Len(m) - 1) = m

WantedMarkersSaveWtb ==
    {<<"iso">>, <<"in", "search", "of">>, <<"want", "to", "buy">>,
     <<"wantto", "buy">>}

WantedMarkers ==
    {<<"wtb">>, <<"iso">>, <<"in", "search", "of">>, <<"want", "to", "buy">>,
     <<"wantto", "buy">>}

\* not re.search(r"\b(wtb|iso|in search of|want to buy|wantto buy)\b", lower)
is_for_sale(title) ==
    ~\E m \in WantedMarkers : Occurs(m, [i \in DOMAIN title |-> Lower(title[i])])

\* "WTB" in flair or "ISO" in flair, flair upper-cased
FlairWanted(flair) ==
    \E i \in DOMAIN flair : Upper(flair[i]) \in {"WTB", "ISO"}

\* What an index page lists: url, title and flair; year and price are what
\* the extractors find in the item's detail page (thread body, OP comment).
StubUniverse ==
    <<[url |-> 1, title |-> <<"FS", "rolex", "submariner", "2007">>,
       flair |-> <<"WTS">>, year |-> Some(TARGET_YEAR), price |-> Some(8500),
       brand |-> "Rolex"],
      [url |-> 2, title |-> <<"FS", "rolex", "submariner">>,
       flair |-> <<>>, year |-> None, price |-> None, brand |-> "Rolex"],
      [url |-> 2, title |-> <<"WTB", "rolex", "submariner">>,
       flair |-> <<>>, year |-> None, price |-> None, brand |-> "Rolex"],
      [url |-> 1, title |-> <<"rolex", "submariner">>,
       flair |-> <<"wtb">>, year |-> None, price |-> None, brand |-> "Rolex"],
      [url |-> 1, title |-> <<"wantto", "buy", "rolex">>,
       flair |-> <<>>, year |-> None, price |-> None, brand |-> "Rolex"]>>

\* A page that overflows the worker pool: distinct for-sale threads.
BigPage ==
    [i \in 1..(MAX_WORKERS + PoolOverflow) |->
        [url |-> i, title |-> <<"FS", "rolex", "submariner">>,
         flair |-> <<>>, year |-> None, price |-> None, brand |-> "Rolex"]]

\* The stub lists an index page may parse to (the empty page included): a
\* page lists an item once.
SmallPages ==
    LET Picks == UNION {[1..n -> DOMAIN StubUniverse] : n \in 0..MaxPageLen}
        Rising(f) == \A i, j \in DOMAIN f : i < j => f[i] < f[j]
    IN  {[i \in DOMAIN f |-> StubUniverse[f[i]]] : f \in {g \in Picks : Rising(g)}}

AllUrls == 1..(MAX_WORKERS + PoolOverflow)

\* What the network answers to one request.
NetOutcomes ==
    {[kind |-> "response", status |-> 200, challenge |-> FALSE],
     [kind |-> "response", status |-> 403, challenge |-> TRUE],
     [kind |-> "response", status |-> 403, challenge |-> FALSE],
     [kind |-> "response", status |-> 429, challenge |-> FALSE],
     [kind |-> "response", status |-> 502, challenge |-> FALSE],
     [kind |-> "timeout", status |-> 0, challenge |-> FALSE]}

\* requests.Response.raise_for_status
RaisesForStatus(resp) == resp.status >= 400

\* The response _get works on: through the proxy, the second attempt's when
\* the first is a 502.
Answer(proxy, o1, o2) ==
    IF proxy /\ o1.kind = "response" /\ o1.status = 502 THEN o2 ELSE o1

\* The answers the retry may get; there is no retry unless the first answer
\* is a 502 through the proxy.
Retries(proxy, o1) ==
    IF proxy /\ o1.kind = "response" /\ o1.status = 502
    THEN NetOutcomes ELSE {o1}

\* BaseScraper._get: the response, or None.
Get(proxy, o1, o2) ==
    LET resp == Answer(proxy, o1, o2)
    IN  IF resp.kind # "response" THEN None
        ELSE IF ~proxy /\ resp.status = 403 /\ resp.challenge THEN None
        ELSE IF RaisesForStatus(resp) THEN None
        ELSE Some(resp)

\* if resp.status_code != 502: break, negated: the loop goes round again.
AgainOnAnyError(resp) == resp.status >= 400

Again(resp) == resp.status = 502

\* for attempt in range(2): the answers to the requests the loop sends
\* through the proxy, from the attempt-th on.  A request that raises leaves
\* the loop and the try.
RECURSIVE ProxyAttempts(_, _)
ProxyAttempts(answers, attempt) ==
    IF attempt > 2 \/ attempt > Len(answers) THEN <<>>
    ELSE IF answers[attempt].kind # "response" THEN <<answers[attempt]>>
    ELSE IF ~Again(answers[attempt]) THEN <<answers[attempt]>>
    ELSE <<answers[attempt]>> \o ProxyAttempts(answers, attempt + 1)

\* BaseScraper._get on a network that answers its requests with answers, in
\* order: the requests sent, and the response returned or None.
GetSending(proxy, answers) ==
    LET sent == IF proxy THEN ProxyAttempts(answers, 1) ELSE <<answers[1]>>
        resp == sent[Len(sent)]
    IN  [sent |-> sent,
         result |-> IF resp.kind # "response" THEN None
                    ELSE IF ~proxy /\ resp.status = 403 /\ resp.challenge
                    THEN None
                    ELSE IF RaisesForStatus(resp) THEN None
                    ELSE Some(resp)]

\* One call of _get.
CallGet ==
    /\ wire # <<>>
    /\ got = None
    /\ got' = Some(GetSending(wire.proxy, wire.answers))
    /\ UNCHANGED <<wire, dbVars, runVars, imageVars, priceVars, orchVars,
                   extractVars, fillVars, pickVars, appVars, raceVars>>

\* _get is called with the proxy or without, on a network that has an
\* answer for every request it may be sent.
GetInit ==
    /\ DbInit
    /\ NoRun
    /\ NoImage
    /\ NoPrice
    /\ NoOrch
    /\ NoExtract
    /\ NoFill
    /\ NoPick
    /\ NoApp
    /\ NoRace
    /\ wire \in [proxy : BOOLEAN, answers : [1..MaxAnswers -> NetOutcomes]]
    /\ got = None

GetNext == CallGet

SpecGet == GetInit /\ [][GetNext]_vars

\* Lines 258-262: the listings whose price is checked.
EligibleWithoutYear(listing, target_year) ==
    /\ listing.price # None /\ listing.price[1] # 0
    /\ listing.brand # NULL

Eligible(listing, target_year) ==
    /\ listing.year = Some(target_year)
    /\ listing.price # None /\ listing.price[1] # 0
    /\ listing.brand # NULL

\* enrich_with_price on a network answering as web does: the listing with
\* the price-analysis fields of check_price's result; the listing as it was
\* when it is not eligible or check_price raised.
enrich_with_price(listing, target_year, web) ==
    IF Eligible(listing, target_year)
    THEN LET checked == check_price(listing.price[1], web).result
         IN  IF checked.outcome = "raised" THEN listing
             ELSE [listing EXCEPT !.price_rating = checked.rating,
                                  !.market_price = checked.market_price,
                                  !.price_delta_pct = checked.pct_of_market,
                                  !.watchcharts_url = checked.watchcharts_url]
    ELSE listing

\* The listing dict an adapter's parser returns: no price-analysis field.
Parsed(url, src, title, year, price, brand) ==
    [listing_url |-> url, source_id |-> src, title |-> title, year |-> year,
     price |-> price, brand |-> brand, price_rating |-> NULL,
     market_price |-> None, price_delta_pct |-> None,
     watchcharts_url |-> NULL]

\* The networks an adapter run meets at the price resolver: one that gives a
\* market price, one that gives none, one on which check_price raises.
RunWebs ==
    {[search |-> Some([slug |-> TRUE, raw_price |-> raw]), chart |-> None,
      market |-> None] : raw \in {Num(1000), Absent, Text}}

\* The price_rating a parsed listing may leave enrich_with_price with.
Ratings(listing, target_year) ==
    {enrich_with_price(listing, target_year, web).price_rating :
        web \in RunWebs}

\* Counted as priced.
Priced(listing) ==
    listing.price_rating # NULL /\ listing.price_rating # "N/A"

NewStats ==
    [pages |-> 0, threads |-> 0, new |-> 0, updated |-> 0, priced |-> 0,
     errors |-> 0, blocked |-> FALSE]

Bump(st, f) == [st EXCEPT ![f] = @ + 1]

BumpIf(cond, st, f) == IF cond THEN Bump(st, f) ELSE st

SourceName(a) ==
    IF a = "forum" THEN "RolexForums BST" ELSE "Reddit r/Watchexchange"

(***************************************************************************)
(* The store as one run sees it: the row of each listing_url, or None.     *)
(***************************************************************************)

listing_url_exists(st, url) == st[url] # None

\* upsert_listing, called from the run's one upserting thread.
StoreUpsert(st, data) ==
    [st EXCEPT ![data.listing_url] =
        IF @ = None
        THEN Some([source_id |-> data.source_id, title |-> data.title,
                   price |-> data.price, price_rating |-> data.price_rating,
                   is_active |-> TRUE])
        ELSE Some([@[1] EXCEPT !.title = data.title, !.price = data.price,
                   !.price_rating = data.price_rating, !.is_active = TRUE])]

\* stats after db.upsert_listing returned is_new.
CountedAsBoth(st, is_new) ==
    IF is_new THEN Bump(st, "new") ELSE Bump(Bump(st, "new"), "updated")

Counted(st, is_new) == IF is_new THEN Bump(st, "new") ELSE Bump(st, "updated")

(***************************************************************************)
(* RolexForumsScraper.run                                                  *)
(***************************************************************************)

\* The environment injects an item-level failure (a failed detail fetch, an
\* exception in a worker, a store call that raises), or does not.
Fault == faultsLeft > 0 /\ faultsLeft' = faultsLeft - 1

NoFault == faultsLeft' = faultsLeft

Queued ==
    [st |-> "queued", out |-> NULL, body |-> NULL, rating |-> NULL,
     upserts |-> 0]

\* What _parse_thread extracts when the page holds no first post body:
\* body = "" and combined is the title and a blank.
TitleOnly(stub) ==
    [stub EXCEPT !.price = None,
                 !.year = IF \E i \in DOMAIN stub.title : stub.title[i] = "2007"
                          THEN Some(TARGET_YEAR) ELSE None]

\* ThreadPoolExecutor(max_workers=5): a worker is free to take a task.
WorkerFreeUnbounded(t) == TRUE

WorkerFree(t) ==
    Cardinality({i \in DOMAIN t : t[i].st = "running"}) < MAX_WORKERS

\* The as_completed loop has yielded every future, and the with block has
\* joined the workers.
PoolDrainedAtFirst(t) == \E i \in DOMAIN t : t[i].st = "consumed"

PoolDrained(t) == \A i \in DOMAIN t : t[i].st = "consumed"

\* Where the forum run goes when an index page could not be fetched: break.
ForumIndexFailedRetries(n) == [pc |-> "index", page_num |-> n]

ForumIndexFailedContinues(n) == [pc |-> "index", page_num |-> n + 1]

ForumIndexFailed(n) == [pc |-> "mark", page_num |-> n]

\* Lines 594-621: fetch index page page_num, parse it, keep the new stubs,
\* submit them to the pool.
ForumFetchIndex ==
    /\ adapter = "forum"
    /\ pc = "index"
    /\ page_num <= pages
    /\ nIndex' = nIndex + 1
    /\ \E o1 \in NetOutcomes : \E o2 \in Retries(scrape_do, o1) :
        LET resp == Get(scrape_do, o1, o2)
            Met(result) ==
                Some([net |-> Answer(scrape_do, o1, o2), proxy |-> scrape_do,
                      result |-> result, before |-> stats,
                      nIndex |-> nIndex + 1, nDetail |-> nDetail,
                      after |-> after])
        IN  IF resp = None
            THEN /\ NoFault
                 /\ stats' = [Bump(stats, "errors") EXCEPT !.blocked = TRUE]
                 /\ pc' = ForumIndexFailed(page_num).pc
                 /\ page_num' = ForumIndexFailed(page_num).page_num
                 /\ lastIndex' = Met("failed")
                 /\ UNCHANGED <<stubs, task, processed>>
            ELSE \E page \in site, storeUp \in BOOLEAN :
                 IF page = <<>>
                 THEN /\ NoFault
                      /\ stats' = Bump(stats, "errors")
                      /\ pc' = "mark"
                      /\ lastIndex' = Met("empty")
                      /\ UNCHANGED <<page_num, stubs, task, processed>>
                 ELSE IF ~storeUp
                 THEN \* db.listing_url_exists raises out of run()
                      /\ Fault
                      /\ pc' = "raised"
                      /\ lastIndex' = Met("ok")
                      /\ UNCHANGED <<stats, page_num, stubs, task, processed>>
                 ELSE LET New(s) == /\ is_for_sale(s.title)
                                    /\ ~listing_url_exists(store, s.url)
                          new_stubs == SelectSeq(page, New)
                      IN  /\ NoFault
                          /\ stats' = Bump(stats, "pages")
                          /\ stubs' = new_stubs
                          /\ task' = [i \in DOMAIN new_stubs |-> Queued]
                          /\ processed' = 0
                          /\ pc' = "pool"
                          /\ lastIndex' = Met("ok")
                          /\ UNCHANGED page_num
    /\ UNCHANGED <<adapter, scrape_do, pages, site, store, new_on_page, after,
                   progress, last_scraped, nDetail, fetchLog, lastPage, dbVars, toolVars>>

\* A pool worker takes the next submitted stub (the pool's queue is FIFO) and
\* starts _fetch_one: the detail fetch of _parse_thread.
StartFetch ==
    /\ adapter = "forum"
    /\ pc = "pool"
    /\ WorkerFree(task)
    /\ \E i \in DOMAIN task :
        /\ task[i].st = "queued"
        /\ \A j \in 1..(i - 1) : task[j].st # "queued"
        /\ task' = [task EXCEPT ![i].st = "running"]
        /\ fetchLog' = [fetchLog EXCEPT ![stubs[i].url].fetches = @ + 1]
    /\ nDetail' = nDetail + 1
    /\ UNCHANGED <<adapter, scrape_do, pages, site, faultsLeft, pc, page_num, stats, store,
                   stubs, processed, new_on_page, after, progress,
                   last_scraped, nIndex, lastIndex, lastPage, dbVars, toolVars>>

\* _fetch_one ends: the listing (enriched), None, or an exception.  The
\* page fetched may hold no first post body: _parse_thread goes on with the
\* title alone.
FinishFetch(i) ==
    /\ adapter = "forum"
    /\ pc = "pool"
    /\ task[i].st = "running"
    /\ \/ /\ NoFault
          /\ \E r \in Ratings(Parsed(stubs[i].url, SourceName(adapter),
                                        stubs[i].title, stubs[i].year,
                                        stubs[i].price, stubs[i].brand),
                                 TARGET_YEAR) :
                task' = [task EXCEPT ![i].st = "finished",
                                     ![i].out = "listing",
                                     ![i].body = "present", ![i].rating = r]
       \/ /\ Fault
          /\ \E r \in Ratings(Parsed(stubs[i].url, SourceName(adapter),
                                        stubs[i].title,
                                        TitleOnly(stubs[i]).year,
                                        TitleOnly(stubs[i]).price,
                                        stubs[i].brand),
                                 TARGET_YEAR) :
                task' = [task EXCEPT ![i].st = "finished",
                                     ![i].out = "listing",
                                     ![i].body = "absent", ![i].rating = r]
       \/ /\ Fault
          /\ \E out \in {"none", "raised"} :
                task' = [task EXCEPT ![i].st = "finished", ![i].out = out]
    /\ UNCHANGED <<adapter, scrape_do, pages, site, pc, page_num, stats, store,
                   stubs, processed, new_on_page, after, progress,
                   last_scraped, nIndex, nDetail, fetchLog, lastIndex, lastPage, dbVars, toolVars>>

\* The as_completed loop runs in the thread that called run(): it takes the
\* next completed future only when its previous iteration is over.
LoopIdleAlways(t) == TRUE

LoopIdle(t) == \A i \in DOMAIN t : t[i].st # "reporting"

\* An iteration of the as_completed loop whose future holds a result, lines
\* 626-646: count the item and call progress_callback.
ProgressCallback(i) ==
    /\ adapter = "forum"
    /\ pc = "pool"
    /\ LoopIdle(task)
    /\ task[i].st = "finished"
    /\ task[i].out # "raised"
    /\ NoFault
    /\ processed' = processed + 1
    /\ stats' = Bump(stats, "threads")
    /\ progress' = Some([source |-> SourceName(adapter),
                         current |-> stubs[i].title,
                         processed |-> processed + 1,
                         total |-> Len(stubs)])
    /\ task' = [task EXCEPT ![i].st = "reporting"]
    /\ UNCHANGED <<adapter, scrape_do, pages, site, pc, page_num, store, stubs,
                   new_on_page, after, last_scraped, nIndex, nDetail, fetchLog,
                   lastIndex, lastPage, dbVars, toolVars>>

\* The rest of an iteration of the as_completed loop: lines 629-634 when
\* future.result() raises, lines 648-665 when progress_callback has returned.
Consume(i) ==
    /\ adapter = "forum"
    /\ pc = "pool"
    /\ LET stub == IF task[i].body = "absent" THEN TitleOnly(stubs[i])
                   ELSE stubs[i]
           listing == [listing_url |-> stub.url,
                       source_id |-> SourceName(adapter),
                       title |-> stub.title, price |-> stub.price,
                       price_rating |-> task[i].rating]
       IN  \/ /\ LoopIdle(task)
              /\ task[i].st = "finished"
              /\ task[i].out = "raised"
              /\ NoFault
              /\ stats' = Bump(stats, "errors")
              /\ task' = [task EXCEPT ![i].st = "consumed"]
              /\ UNCHANGED <<store, fetchLog>>
           \/ /\ task[i].st = "reporting"
              /\ IF task[i].out = "none"
                 THEN /\ NoFault
                      /\ stats' = Bump(stats, "errors")
                      /\ task' = [task EXCEPT ![i].st = "consumed"]
                      /\ UNCHANGED <<store, fetchLog>>
                 ELSE /\ task' = [task EXCEPT ![i].st = "consumed",
                                              ![i].upserts = @ + 1]
                      /\ \/ /\ NoFault
                            /\ store' = StoreUpsert(store, listing)
                            /\ fetchLog' =
                                 [fetchLog EXCEPT ![stub.url].upserts = @ + 1]
                            /\ stats' =
                                 Counted(BumpIf(Priced(listing), stats, "priced"),
                                         ~listing_url_exists(store, stub.url))
                         \/ \* db.upsert_listing raises
                            /\ Fault
                            /\ store' = store
                            /\ fetchLog' = fetchLog
                            /\ stats' = Bump(stats, "errors")
    /\ UNCHANGED <<adapter, scrape_do, pages, site, pc, page_num, stubs,
                   processed, progress, new_on_page, after, last_scraped,
                   nIndex, nDetail, lastIndex, lastPage, dbVars, toolVars>>

\* The pool's with block ends and the for loop goes to the next page.
ForumPageDone ==
    /\ adapter = "forum"
    /\ pc = "pool"
    /\ PoolDrained(task)
    /\ pc' = "index"
    /\ page_num' = page_num + 1
    /\ UNCHANGED <<adapter, scrape_do, pages, site, faultsLeft, stats, store, stubs, task,
                   processed, new_on_page, after, progress, last_scraped,
                   nIndex, nDetail, fetchLog, lastIndex, lastPage, dbVars, toolVars>>

\* range(1, pages + 1) is exhausted.
ForumLoopEnd ==
    /\ adapter = "forum"
    /\ pc = "index"
    /\ page_num > pages
    /\ pc' = "mark"
    /\ UNCHANGED <<adapter, scrape_do, pages, site, faultsLeft, page_num, stats, store, stubs,
                   task, processed, new_on_page, after, progress,
                   last_scraped, nIndex, nDetail, fetchLog, lastIndex, lastPage, dbVars, toolVars>>

\* db.mark_source_scraped(self.source_id); return stats
MarkScraped ==
    /\ adapter \in {"forum", "reddit"}
    /\ pc = "mark"
    /\ last_scraped' = last_scraped + 1
    /\ pc' = "returned"
    /\ UNCHANGED <<adapter, scrape_do, pages, site, faultsLeft, page_num, stats, store, stubs,
                   task, processed, new_on_page, after, progress, nIndex,
                   nDetail, fetchLog, lastIndex, lastPage, dbVars, toolVars>>

(***************************************************************************)
(* RedditWatchexchangeScraper.run                                          *)
(***************************************************************************)

\* What a feed page's JSON holds; "malformed" when resp.json() raises.
FeedBodies ==
    [children : site, after : {NULL, "t3_next"}, json : {"ok"}]
    \cup {[children |-> <<>>, after |-> NULL, json |-> "malformed"]}

\* The two early stops after a page: no cursor, or nothing new on the page.
StopAfterPageCursorOnly(cursor, new) == cursor = NULL

StopAfterPage(cursor, new) == cursor = NULL \/ new = 0

\* Lines 827-866: fetch the feed page at the cursor.
RedditFetchIndex ==
    /\ adapter = "reddit"
    /\ pc = "index"
    /\ page_num < pages
    /\ nIndex' = nIndex + 1
    /\ \E o1 \in NetOutcomes : \E o2 \in Retries(scrape_do, o1) :
        LET resp == Get(scrape_do, o1, o2)
            Met(result) ==
                Some([net |-> Answer(scrape_do, o1, o2), proxy |-> scrape_do,
                      result |-> result, before |-> stats,
                      nIndex |-> nIndex + 1, nDetail |-> nDetail,
                      after |-> after])
            Blocked ==
                /\ stats' = [Bump(stats, "errors") EXCEPT !.blocked = TRUE]
                /\ pc' = "mark"
                /\ lastIndex' = Met("failed")
                /\ UNCHANGED <<page_num, stubs, processed, new_on_page, after>>
        IN  IF resp = None THEN Blocked
            ELSE IF resp[1].status = 403 THEN Blocked
            ELSE IF resp[1].status = 429
            THEN \* time.sleep(60); continue
                 /\ page_num' = page_num + 1
                 /\ lastIndex' = Met("ratelimited")
                 /\ UNCHANGED <<stats, pc, stubs, processed, new_on_page, after>>
            ELSE \E body \in FeedBodies :
                 IF body.json = "malformed"
                 THEN /\ stats' = Bump(stats, "errors")
                      /\ pc' = "mark"
                      /\ lastIndex' = Met("malformed")
                      /\ UNCHANGED <<page_num, stubs, processed, new_on_page,
                                     after>>
                 ELSE IF body.children = <<>>
                 THEN /\ pc' = "mark"
                      /\ lastIndex' = Met("empty")
                      /\ UNCHANGED <<stats, page_num, stubs, processed,
                                     new_on_page, after>>
                 ELSE /\ stats' = Bump(stats, "pages")
                      /\ after' = body.after
                      /\ new_on_page' = 0
                      /\ stubs' = body.children
                      /\ processed' = 1
                      /\ pc' = "items"
                      /\ lastIndex' = Met("ok")
                      /\ UNCHANGED page_num
    /\ UNCHANGED <<adapter, scrape_do, pages, site, faultsLeft, store, task, progress,
                   last_scraped, nDetail, fetchLog, lastPage, dbVars, toolVars>>

\* One iteration of the loop over children, lines 869-903.
RedditItem ==
    /\ adapter = "reddit"
    /\ pc = "items"
    /\ processed <= Len(stubs)
    /\ LET post == stubs[processed]
           seen == Bump(stats, "threads")
           Skip == /\ NoFault
                   /\ stats' = seen
                   /\ pc' = pc
                   /\ UNCHANGED <<new_on_page, store, nDetail>>
       IN  IF ~is_for_sale(post.title) \/ FlairWanted(post.flair) THEN Skip
           ELSE \/ \* db.listing_url_exists raises out of run()
                   /\ Fault
                   /\ stats' = seen
                   /\ pc' = "raised"
                   /\ UNCHANGED <<new_on_page, store, nDetail>>
                \/ /\ listing_url_exists(store, post.url)
                   /\ Skip
                \/ /\ ~listing_url_exists(store, post.url)
                   /\ new_on_page' = new_on_page + 1
                   /\ pc' = pc
                   /\ \/ \* _parse_post raises before the comment fetch
                         /\ Fault
                         /\ stats' = Bump(seen, "errors")
                         /\ UNCHANGED <<store, nDetail>>
                      \/ \* the post's body is empty: _fetch_op_comment (the
                         \* comment found or not); then _fetch_image,
                         \* enrich_with_price, upsert_listing
                         /\ nDetail' = nDetail + 1
                         /\ \E found \in BOOLEAN :
                            LET year == IF found THEN post.year ELSE None
                                price == IF found THEN post.price ELSE None
                            IN  \E r \in Ratings(Parsed(post.url,
                                                         SourceName(adapter),
                                                         post.title, year,
                                                         price, post.brand),
                                                  TARGET_YEAR) :
                                LET listing ==
                                      [listing_url |-> post.url,
                                       source_id |-> SourceName(adapter),
                                       title |-> post.title, price |-> price,
                                       price_rating |-> r]
                                    rated == BumpIf(Priced(listing), seen,
                                                    "priced")
                                IN  \/ /\ NoFault
                                       /\ store' = StoreUpsert(store, listing)
                                       /\ stats' =
                                            Counted(rated,
                                                    ~listing_url_exists(store, post.url))
                                    \/ \* _fetch_image raises
                                       /\ Fault
                                       /\ store' = store
                                       /\ stats' = Bump(seen, "errors")
                                    \/ \* upsert_listing raises
                                       /\ Fault
                                       /\ store' = store
                                       /\ stats' = Bump(rated, "errors")
    /\ processed' = processed + 1
    /\ UNCHANGED <<adapter, scrape_do, pages, site, page_num, stubs, task,
                   after, progress, last_scraped, nIndex, fetchLog, lastIndex,
                   lastPage,
                   dbVars, toolVars>>

\* Lines 905-912: after the children, stop or go to the next page.
RedditPageEnd ==
    /\ adapter = "reddit"
    /\ pc = "items"
    /\ processed > Len(stubs)
    /\ lastPage' = Some([cursor |-> after # NULL, new |-> new_on_page,
                         page_num |-> page_num])
    /\ IF StopAfterPage(after, new_on_page)
       THEN pc' = "mark" /\ page_num' = page_num
       ELSE pc' = "index" /\ page_num' = page_num + 1
    /\ UNCHANGED <<adapter, scrape_do, pages, site, faultsLeft, stats, store, stubs, task,
                   processed, new_on_page, after, progress, last_scraped,
                   nIndex, nDetail, fetchLog, lastIndex, dbVars, toolVars>>

\* range(max_pages) is exhausted.
RedditLoopEnd ==
    /\ adapter = "reddit"
    /\ pc = "index"
    /\ page_num >= pages
    /\ pc' = "mark"
    /\ UNCHANGED <<adapter, scrape_do, pages, site, faultsLeft, page_num, stats, store, stubs,
                   task, processed, new_on_page, after, progress,
                   last_scraped, nIndex, nDetail, fetchLog, lastIndex, lastPage, dbVars, toolVars>>

\* A run starts: the forum loop counts pages from 1, the feed loop from 0.
\* The store may hold a listing found by an earlier run.
RunStart ==
    /\ pc = "index"
    /\ page_num = IF adapter = "forum" THEN 1 ELSE 0
    /\ stats = NewStats
    /\ store \in {[u \in AllUrls |-> None],
                  [u \in AllUrls |->
                     IF u = 2
                     THEN Some([source_id |-> SourceName(adapter),
                                title |-> <<"FS", "rolex", "submariner">>,
                                price |-> None, price_rating |-> NULL,
                                is_active |-> TRUE])
                     ELSE None]}
    /\ stubs = <<>>
    /\ task = <<>>
    /\ processed = 0
    /\ new_on_page = 0
    /\ after = NULL
    /\ progress = None
    /\ last_scraped = 0
    /\ nIndex = 0
    /\ nDetail = 0
    /\ fetchLog = [u \in AllUrls |-> [fetches |-> 0, upserts |-> 0]]
    /\ lastIndex = None
    /\ lastPage = None

\* Either adapter, on a source whose index pages are short.
RunInit ==
    /\ DbInit
    /\ NoTools
    /\ adapter \in {"forum", "reddit"}
    /\ scrape_do \in BOOLEAN
    /\ pages \in 0..MaxPages
    /\ site = SmallPages
    /\ faultsLeft = MaxFaults
    /\ RunStart

\* The forum adapter on a source whose index page lists more new threads
\* than the pool has workers.
PoolInit ==
    /\ DbInit
    /\ NoTools
    /\ adapter = "forum"
    /\ scrape_do = FALSE
    /\ pages = 1
    /\ site = {BigPage}
    /\ faultsLeft = MaxFaults
    /\ RunStart

AdapterNext ==
    \/ ForumFetchIndex
    \/ StartFetch
    \/ \E i \in DOMAIN task : FinishFetch(i)
    \/ \E i \in DOMAIN task : ProgressCallback(i)
    \/ \E i \in DOMAIN task : Consume(i)
    \/ ForumPageDone
    \/ ForumLoopEnd
    \/ RedditFetchIndex
    \/ RedditItem
    \/ RedditPageEnd
    \/ RedditLoopEnd
    \/ MarkScraped

SpecAdapter == RunInit /\ [][AdapterNext]_vars

\* run() is one thread that never waits without a timeout (every request
\* carries one), and the pool's workers are threads of their own: whatever
\* step is possible is taken eventually.
SpecAdapterFair == RunInit /\ [][AdapterNext]_vars /\ WF_vars(AdapterNext)

PoolNext ==
    \/ ForumFetchIndex
    \/ StartFetch
    \/ \E i \in DOMAIN task : FinishFetch(i)
    \/ \E i \in DOMAIN task : ProgressCallback(i)
    \/ \E i \in DOMAIN task : Consume(i)
    \/ ForumPageDone
    \/ ForumLoopEnd
    \/ MarkScraped

SpecPool == PoolInit /\ [][PoolNext]_vars

\* RolexForumsScraper._parse_forum_page on the thread rows of an index page.
\* A row is marked up with the anchor id thread_title_N ("anchor"), as a
\* threadbit block ("block"), as both ("both": a threadbit block whose title
\* anchor carries the id), or only with a title-classed showthread anchor
\* ("generic").  The anchors are collected first, then the blocks, and the
\* generic anchors only when neither gave a thread.
ParseForumPage(html) ==
    LET StubOf(sel) == [i \in DOMAIN sel |-> StubUniverse[sel[i].thread]]
        ByAnchor(r) == r.markup \in {"anchor", "both"}
        ByBlock(r) == r.markup \in {"block", "both"}
        Generic(r) == r.markup = "generic"
        threads == StubOf(SelectSeq(html, ByAnchor))
                       \o StubOf(SelectSeq(html, ByBlock))
    IN  IF threads = <<>> THEN StubOf(SelectSeq(html, Generic)) ELSE threads

\* The index pages of a forum: up to MaxPageLen rows of distinct threads
\* (a for-sale thread and one that may be in the store already), each in
\* one of the markups.
MarkupPages ==
    LET Picks == UNION {[1..n -> 1..2] : n \in 0..MaxPageLen}
        Rising(f) == \A i, j \in DOMAIN f : i < j => f[i] < f[j]
    IN  UNION {[DOMAIN f -> {"anchor", "block", "both", "generic"}]
                  \X {f} : f \in {g \in Picks : Rising(g)}}

RowsOfPage(mp) ==
    [i \in DOMAIN mp[2] |-> [thread |-> mp[2][i], markup |-> mp[1][i]]]

\* The forum adapter on index pages as _parse_forum_page reads them.
MarkupInit ==
    /\ DbInit
    /\ NoTools
    /\ adapter = "forum"
    /\ scrape_do = FALSE
    /\ pages \in 1..MaxPages
    /\ site = {ParseForumPage(RowsOfPage(mp)) : mp \in MarkupPages}
    /\ faultsLeft = MaxFaults
    /\ RunStart

SpecMarkup == MarkupInit /\ [][PoolNext]_vars

(***************************************************************************)
(* BaseScraper._fetch_image                                                *)
(***************************************************************************)

\* Image URLs are sequences of their parts: a CDN link, a forum attachment,
\* a forum-hosted picture that is no attachment.php link, a relative link.
ImageUrls ==
    {<<"https", "i.imgur.com", "a.jpg">>,
     <<"https", "www.rolexforums.com", "attachment.php", "id=1">>,
     <<"https", "www.rolexforums.com", "images", "b.jpg">>,
     <<"images", "c.jpg">>}

\* hashlib.md5(url.encode()).hexdigest(): one key per URL.
url_hash(url) ==
    CASE url = <<"https", "i.imgur.com", "a.jpg">> -> "md5-a"
      [] url = <<"https", "www.rolexforums.com", "attachment.php", "id=1">>
            -> "md5-b"
      [] url = <<"https", "www.rolexforums.com", "images", "b.jpg">> -> "md5-c"
      [] OTHER -> "md5-d"

\* "part" in url
Contains(url, part) == \E i \in DOMAIN url : url[i] = part

\* url.startswith("http")
StartsWithHttp(url) == Len(url) > 0 /\ url[1] \in {"http", "https"}

ForumHosts == {"www.rolexforums.com", "www.watchuseek.com", "www.timezone.com"}

\* Lines 387-390: the URLs retried through _get.
is_forum_attachment(url) ==
    \/ Contains(url, "attachment.php")
    \/ ~StartsWithHttp(url)
    \/ \E h \in ForumHosts : Contains(url, h)

\* Line 415: the URLs handed back for the browser to load.
BrowserLoadable(url) ==
    StartsWithHttp(url) /\ ~Contains(url, "attachment.php")

\* The extensions the cache is searched for, in the order of line 359.
Exts == <<".jpg", ".png", ".webp", ".gif">>

ContentTypes ==
    {"image/jpeg", "image/png", "image/webp", "image/gif", "image/svg+xml",
     "text/html"}

\* content_type.startswith("image/")
IsImageType(ct) == ct # "text/html"

\* Lines 398-401: the extension a content type is stored under.
ExtOf(ct) ==
    CASE ct = "image/png" -> ".png"
      [] ct = "image/webp" -> ".webp"
      [] ct = "image/gif" -> ".gif"
      [] OTHER -> ".jpg"

\* Lines 359-361: the first extension a file of this hash exists under.
CacheLookupJpgOnly(files, h) ==
    IF <<h, ".jpg">> \in files THEN Some(".jpg") ELSE None

CacheLookup(files, h) ==
    LET found == {i \in DOMAIN Exts : <<h, Exts[i]>> \in files}
    IN  IF found = {} THEN None
        ELSE Some(Exts[CHOOSE i \in found : \A j \in found : i <= j])

CachePath(h, ext) == [kind |-> "cache", path |-> <<"static", "images", h, ext>>]

\* Lines 411-418: what is returned when nothing was cached.
NotCached(url) ==
    IF BrowserLoadable(url)
    THEN [kind |-> "url", path |-> url]
    ELSE [kind |-> "none", path |-> <<>>]

\* The answers to the direct requests.get of lines 367-382: a content type
\* with status 200, or no usable answer (another status, an exception).
DirectAnswers == ContentTypes \cup {"failed"}

\* Requests one _get call makes: two when the proxy's first answer is a 502.
GetRequests(proxy, o1) ==
    IF proxy /\ o1.kind = "response" /\ o1.status = 502 THEN 2 ELSE 1

\* _fetch_image(url), start to end.
FetchImage ==
    /\ adapter = "none"
    /\ nShots < MaxShots
    /\ nShots' = nShots + 1
    /\ \E url \in ImageUrls :
        LET h == url_hash(url)
            hit == CacheLookup(cache, h)
            Shot(via, result, net) ==
                /\ nNet' = nNet + net
                /\ shots' = LastTwo(Append(shots,
                                [url |-> url, via |-> via, result |-> result,
                                 net |-> net, named |-> is_forum_attachment(url)]))
            \* lines 394-409: store the image of a response, or fall through
            Keep(via, ct, net) ==
                IF IsImageType(ct)
                THEN \/ /\ cache' = cache \cup {<<h, ExtOf(ct)>>}
                        /\ Shot(via, CachePath(h, ExtOf(ct)), net)
                     \/ \* write_bytes raises; the file may be left behind
                        /\ \E left \in SUBSET {<<h, ExtOf(ct)>>} :
                              cache' = cache \cup left
                        /\ Shot("unwritten", NotCached(url), net)
                ELSE /\ cache' = cache
                     /\ Shot("failed", NotCached(url), net)
        IN  IF hit # None
            THEN /\ cache' = cache
                 /\ Shot("cache", CachePath(h, hit[1]), 0)
            ELSE \E direct \in DirectAnswers :
                 IF direct # "failed" /\ IsImageType(direct)
                 THEN Keep("direct", direct, 1)
                 ELSE IF ~is_forum_attachment(url)
                 THEN /\ cache' = cache
                      /\ Shot("failed", NotCached(url), 1)
                 ELSE \E o1 \in NetOutcomes : \E o2 \in Retries(scrape_do, o1) :
                      LET resp == Get(scrape_do, o1, o2)
                          net == 1 + GetRequests(scrape_do, o1)
                      IN  IF resp = None
                          THEN /\ cache' = cache
                               /\ Shot("failed", NotCached(url), net)
                          ELSE \E ct \in ContentTypes : Keep("get", ct, net)
    /\ UNCHANGED <<dbVars, runVars, priceVars, orchVars, extractVars, fillVars, restVars>>

ImageInit ==
    DbInit /\ scrape_do \in BOOLEAN /\ Stopped /\ NoImage /\ NoPrice /\ NoOrch
    /\ NoExtract
    /\ NoFill
    /\ NoRest

ImageNext == FetchImage

SpecImage == ImageInit /\ [][ImageNext]_vars

(***************************************************************************)
(* One call into the price resolver                                        *)
(***************************************************************************)

AskingPrices == {-100, 0, 899, 900, 901, 1000, 1001, 1100, 1101, 1200}

MarketPrices == {-1000, 0, 1000}

\* The listings enrich_with_price is given.
EnrichListings ==
    {Parsed(1, "RolexForums BST", <<"FS", "rolex", "submariner">>, year,
            price, brand) :
        year \in {None, Some(TARGET_YEAR), Some(TARGET_YEAR - 1)},
        price \in {None, Some(0), Some(900)},
        brand \in {NULL, "Rolex"}}

NoListing == Parsed(1, NULL, <<>>, None, None, NULL)

Jobs ==
    [op : {"rate_price"}, asking : AskingPrices, market : MarketPrices,
     listing : {NoListing}]
    \cup [op : {"check_price"}, asking : {-100, 0, 900, 1200}, market : {0},
          listing : {NoListing}]
    \cup [op : {"enrich_with_price"}, asking : {0}, market : {0},
          listing : EnrichListings]

\* rate_price(asking, market) is called.
RatePrice ==
    /\ ~answered
    /\ job.op = "rate_price"
    /\ verdict' = Some(rate_price(job.asking, job.market))
    /\ answered' = TRUE
    /\ UNCHANGED <<job, quote, item, dbVars, runVars, imageVars, orchVars, extractVars, fillVars, restVars>>

\* check_price(listing_price=asking) is called.
CheckPrice ==
    /\ ~answered
    /\ job.op = "check_price"
    /\ \E web \in Webs : quote' = Some(check_price(job.asking, web))
    /\ answered' = TRUE
    /\ UNCHANGED <<job, verdict, item, dbVars, runVars, imageVars, orchVars, extractVars, fillVars, restVars>>

\* enrich_with_price(listing, TARGET_YEAR) is called; it calls check_price
\* for an eligible listing only.
Enrich ==
    /\ ~answered
    /\ job.op = "enrich_with_price"
    /\ IF Eligible(job.listing, TARGET_YEAR)
       THEN \E web \in Webs :
              /\ quote' = Some(check_price(job.listing.price[1], web))
              /\ item' = Some(enrich_with_price(job.listing, TARGET_YEAR, web))
       ELSE /\ quote' = quote
            /\ item' = Some(enrich_with_price(job.listing, TARGET_YEAR,
                                              CHOOSE web \in Webs : TRUE))
    /\ answered' = TRUE
    /\ UNCHANGED <<job, verdict, dbVars, runVars, imageVars, orchVars, extractVars, fillVars, restVars>>

PriceInit ==
    /\ DbInit
    /\ NoRun
    /\ NoImage
    /\ NoOrch
    /\ NoExtract
    /\ NoFill
    /\ NoRest
    /\ job \in Jobs
    /\ answered = FALSE
    /\ verdict = None
    /\ quote = None
    /\ item = None

PriceNext == RatePrice \/ CheckPrice \/ Enrich

SpecPrice == PriceInit /\ [][PriceNext]_vars

(***************************************************************************)
(* run_all_scrapers                                                        *)
(***************************************************************************)

\* scraper_classes, in the order the loop takes its entries.
scraper_classes == <<"RolexForums BST", "Reddit r/Watchexchange">>

\* The source filters given: no filter ({}), and every list of adapter names.
SourceFilters == SUBSET SourceIds

\* if sources and name not in sources: continue
Skipped(name, filter) == filter # {} /\ name \notin filter

\* The stats a run() may return: every item seen is counted in threads and
\* is then new or updated or neither, a priced item is a stored one, and
\* blocked is set together with an error.
RunReports(name) ==
    {r \in [source : {name}, pages : 0..MaxCount, threads : 0..MaxCount,
            new : 0..MaxCount, updated : 0..MaxCount, priced : 0..MaxCount,
            errors : 0..MaxCount, blocked : BOOLEAN] :
        /\ r.new + r.updated <= r.threads
        /\ r.priced <= r.new + r.updated
        /\ r.blocked => r.errors >= 1}

\* s.get(key, default)
GetOr(s, key, default) == IF key \in DOMAIN s THEN s[key] ELSE default

RECURSIVE SumOf(_, _)
SumOf(entries, key) ==
    IF entries = <<>> THEN 0
    ELSE GetOr(Head(entries), key, 0) + SumOf(Tail(entries), key)

AnyOf(entries, key) ==
    \E i \in DOMAIN entries : GetOr(entries[i], key, FALSE)

\* The except clause lets the exception out of run_all_scrapers.
OnFailurePropagates(name, text) ==
    [orch |-> "raised", entries |-> <<>>]

\* except Exception as e: all_stats.append({"source": name, "error": str(e)})
OnFailure(name, text) ==
    [orch |-> "loop", entries |-> <<[source |-> name, error |-> text]>>]

\* The adapters whose run() was called and has neither returned nor raised.
InRun ==
    {name \in started :
        \A i \in DOMAIN all_stats : all_stats[i].source # name}

\* s.run(...) is a call of the thread of run_all_scrapers: the loop goes on
\* when the call is over.
CallOverAlways(running) == TRUE

CallOver(running) == running = {}

Looping ==
    /\ orch = "loop"
    /\ nextCls \in DOMAIN scraper_classes
    /\ CallOver(InRun)

SkipAdapter ==
    /\ Looping
    /\ Skipped(scraper_classes[nextCls], sources)
    /\ nextCls' = nextCls + 1
    /\ UNCHANGED <<sources, orch, all_stats, combined, tried, started, failed,
                   dbVars, runVars, imageVars, priceVars, extractVars, fillVars, restVars>>

\* cls(cookie_string=..., delay=2.0) raises.
ConstructRaises ==
    /\ Looping
    /\ ~Skipped(scraper_classes[nextCls], sources)
    /\ LET name == scraper_classes[nextCls]
           after_it == OnFailure(name, "init")
       IN  /\ tried' = tried \cup {name}
           /\ failed' = failed \cup {name}
           /\ orch' = after_it.orch
           /\ all_stats' = all_stats \o after_it.entries
    /\ nextCls' = nextCls + 1
    /\ UNCHANGED <<sources, combined, started,
                   dbVars, runVars, imageVars, priceVars, extractVars, fillVars, restVars>>

\* s = cls(...) is constructed and s.run(...) is called.
RunStarts ==
    /\ Looping
    /\ ~Skipped(scraper_classes[nextCls], sources)
    /\ tried' = tried \cup {scraper_classes[nextCls]}
    /\ started' = started \cup {scraper_classes[nextCls]}
    /\ nextCls' = nextCls + 1
    /\ UNCHANGED <<sources, orch, all_stats, combined, failed,
                   dbVars, runVars, imageVars, priceVars, extractVars, fillVars, restVars>>

\* s.run(...) raises.
RunRaises(name) ==
    /\ orch = "loop"
    /\ name \in InRun
    /\ LET after_it == OnFailure(name, "run")
       IN  /\ failed' = failed \cup {name}
           /\ orch' = after_it.orch
           /\ all_stats' = all_stats \o after_it.entries
    /\ UNCHANGED <<sources, nextCls, combined, tried, started,
                   dbVars, runVars, imageVars, priceVars, extractVars, fillVars, restVars>>

\* s.run(...) returns its stats.
RunReturns(name) ==
    /\ orch = "loop"
    /\ name \in InRun
    /\ \E result \in RunReports(name) :
          all_stats' = Append(all_stats, result)
    /\ UNCHANGED <<sources, orch, nextCls, combined, tried, started, failed,
                   dbVars, runVars, imageVars, priceVars, extractVars, fillVars, restVars>>

Aggregate ==
    /\ orch = "loop"
    /\ nextCls \notin DOMAIN scraper_classes
    /\ CallOver(InRun)
    /\ combined' = Some([sources |-> all_stats,
                         new |-> SumOf(all_stats, "new"),
                         updated |-> SumOf(all_stats, "updated"),
                         priced |-> SumOf(all_stats, "priced"),
                         errors |-> SumOf(all_stats, "errors"),
                         blocked |-> AnyOf(all_stats, "blocked")])
    /\ orch' = "returned"
    /\ UNCHANGED <<sources, nextCls, all_stats, tried, started, failed,
                   dbVars, runVars, imageVars, priceVars, extractVars, fillVars, restVars>>

AllInit ==
    /\ DbInit
    /\ NoRun
    /\ NoImage
    /\ NoPrice
    /\ NoExtract
    /\ NoFill
    /\ NoRest
    /\ sources \in SourceFilters
    /\ orch = "loop"
    /\ nextCls = 1
    /\ all_stats = <<>>
    /\ combined = None
    /\ tried = {}
    /\ started = {}
    /\ failed = {}

AllNext ==
    \/ SkipAdapter
    \/ ConstructRaises
    \/ RunStarts
    \/ \E name \in SourceIds : RunRaises(name)
    \/ \E name \in SourceIds : RunReturns(name)
    \/ Aggregate

SpecAll == AllInit /\ [][AllNext]_vars

\* A forum run on its own, or run_all_scrapers over the adapters: what goes
\* on one after the other in each.
TurnsInit == (RunInit /\ adapter = "forum") \/ AllInit

TurnsNext ==
    \/ ForumFetchIndex
    \/ StartFetch
    \/ \E i \in DOMAIN task : FinishFetch(i)
    \/ \E i \in DOMAIN task : ProgressCallback(i)
    \/ \E i \in DOMAIN task : Consume(i)
    \/ ForumPageDone
    \/ ForumLoopEnd
    \/ MarkScraped
    \/ AllNext

SpecTurns == TurnsInit /\ [][TurnsNext]_vars

(***************************************************************************)
(* The field extractors: extract_price .. is_for_sale                      *)
(***************************************************************************)

\* A text is the concatenation of its tokens: words, blanks and other single
\* characters, and numbers as they are written.
Word(s) == [w |-> s, num |-> None]

\* text.lower(), as the words of the text.
LowerWords(text) == [i \in DOMAIN text |-> Lower(text[i].w)]

\* The alias table, in the order of the dict literal; a key is the sequence
\* of its words and blanks.
BRAND_ALIASES ==
    <<[key |-> <<"audemars", " ", "piguet">>, val |-> "Audemars Piguet"],
      [key |-> <<"patek", " ", "philippe">>, val |-> "Patek Philippe"],
      [key |-> <<"vacheron", " ", "constantin">>, val |-> "Vacheron Constantin"],
      [key |-> <<"grand", " ", "seiko">>, val |-> "Grand Seiko"],
      [key |-> <<"tag", " ", "heuer">>, val |-> "TAG Heuer"],
      [key |-> <<"jaeger-lecoultre">>, val |-> "Jaeger-LeCoultre"],
      [key |-> <<"jaeger", " ", "lecoultre">>, val |-> "Jaeger-LeCoultre"],
      [key |-> <<"a.", " ", "lange">>, val |-> "A. Lange & Sohne"],
      [key |-> <<"lange", " ", "&", " ", "sohne">>, val |-> "A. Lange & Sohne"],
      [key |-> <<"gmt-master">>, val |-> "Rolex"],
      [key |-> <<"gmt", " ", "master">>, val |-> "Rolex"],
      [key |-> <<"datejust">>, val |-> "Rolex"],
      [key |-> <<"submariner">>, val |-> "Rolex"],
      [key |-> <<"daytona">>, val |-> "Rolex"],
      [key |-> <<"sea-dweller">>, val |-> "Rolex"],
      [key |-> <<"sky-dweller">>, val |-> "Rolex"],
      [key |-> <<"milgauss">>, val |-> "Rolex"],
      [key |-> <<"yacht-master">>, val |-> "Rolex"],
      [key |-> <<"day-date">>, val |-> "Rolex"],
      [key |-> <<"air-king">>, val |-> "Rolex"],
      [key |-> <<"explorer">>, val |-> "Rolex"],
      [key |-> <<"rolex">>, val |-> "Rolex"],
      [key |-> <<"tudor">>, val |-> "Tudor"],
      [key |-> <<"omega">>, val |-> "Omega"],
      [key |-> <<"breitling">>, val |-> "Breitling"],
      [key |-> <<"navitimer">>, val |-> "Breitling"],
      [key |-> <<"panerai">>, val |-> "Panerai"],
      [key |-> <<"luminor">>, val |-> "Panerai"],
      [key |-> <<"radiomir">>, val |-> "Panerai"],
      [key |-> <<"cartier">>, val |-> "Cartier"],
      [key |-> <<"blancpain">>, val |-> "Blancpain"],
      [key |-> <<"zenith">>, val |-> "Zenith"],
      [key |-> <<"hublot">>, val |-> "Hublot"],
      [key |-> <<"patek">>, val |-> "Patek Philippe"],
      [key |-> <<"seiko">>, val |-> "Seiko"],
      [key |-> <<"audemars">>, val |-> "Audemars Piguet"],
      [key |-> <<"royal", " ", "oak">>, val |-> "Audemars Piguet"],
      [key |-> <<"vacheron">>, val |-> "Vacheron Constantin"],
      [key |-> <<"iwc">>, val |-> "IWC"],
      [key |-> <<"jaeger">>, val |-> "Jaeger-LeCoultre"],
      [key |-> <<"jlc">>, val |-> "Jaeger-LeCoultre"],
      [key |-> <<"lange">>, val |-> "A. Lange & Sohne"]>>

\* lower.find(key): the position of the first occurrence, -1 when there is
\* none.
Find(words, key) ==
    LET at == {i \in 1..(Len(words) - Len(key) + 1) :
                  SubSeq(words, i, i + Len(key) - 1) = key}
    IN  IF at = {} THEN -1
        ELSE (CHOOSE i \in at : \A j \in at : i <= j) - 1

\* pos < best_pos
EarlierOrAny(pos, best_pos) == TRUE

Earlier(pos, best_pos) == pos < best_pos

\* The loop of extract_brand from table entry i on.
RECURSIVE BrandScan(_, _, _, _)
BrandScan(words, i, best_pos, best_brand) ==
    IF i > Len(BRAND_ALIASES) THEN best_brand
    ELSE LET pos == Find(words, BRAND_ALIASES[i].key)
         IN  IF pos # -1 /\ Earlier(pos, best_pos)
             THEN BrandScan(words, i + 1, pos, Some(BRAND_ALIASES[i].val))
             ELSE BrandScan(words, i + 1, best_pos, best_brand)

extract_brand(text) ==
    LET lower == LowerWords(text)
    IN  BrandScan(lower, 1, Len(lower), None)

\* A number as it is written: a, then a separator ("" for none, "." or ",")
\* and b in d digits.  A written number holds at most one separator and at
\* most two digits after a ".", so each number group of PRICE_RE takes the
\* token whole or not at all.
Written(a, sep, b, d) ==
    [w |-> "#", num |-> Some([a |-> a, sep |-> sep, b |-> b, d |-> d])]

\* The token at position i, and the empty word past the end of the text.
Tok(text, i) == IF i \in DOMAIN text THEN text[i] ELSE Word("")

IsNum(tok) == tok.num # None

IsBlank(tok) == tok.w = " "

\* \s*: the first position from i on that holds no blank.
RECURSIVE SkipBlanks(_, _)
SkipBlanks(text, i) ==
    IF IsBlank(Tok(text, i)) THEN SkipBlanks(text, i + 1) ELSE i

\* str.lstrip("/") from position i on.
RECURSIVE SkipSlashes(_, _)
SkipSlashes(text, i) ==
    IF Tok(text, i).w = "/" THEN SkipSlashes(text, i + 1) ELSE i

\* \b after a word: the text ends, or a character that is no word character
\* follows.
Boundary(text, i) == Tok(text, i).w \in {"", " ", "/", "$", ":"}

\* YG|WG|RG|SS|gold|white|yellow|rose|ct|carat|karat, case ignored
GuardTokens ==
    {"yg", "wg", "rg", "ss", "gold", "white", "yellow", "rose", "ct", "carat",
     "karat"}

IsGuard(tok) == Lower(tok.w) \in GuardTokens

IsK(tok) == tok.w \in {"k", "K"}

\* The negative lookahead of the third alternative, from position i (the
\* one after the k) on: \s*\/?\s*(?:YG|...|karat)
KaratLookahead(text, i) ==
    LET j == SkipBlanks(text, i)
        n == IF Tok(text, j).w = "/" THEN j + 1 ELSE j
    IN  IsGuard(Tok(text, SkipBlanks(text, n)))

\* The characters a token takes.
Width(tok) ==
    CASE tok.w \in {"", "#"} -> 0
      [] tok.w \in {" ", "/", "$", ":", "k", "K"} -> 1
      [] tok.w \in {"yg", "wg", "rg", "ss", "SS", "ct", "at"} -> 2
      [] tok.w \in {"obo", "USD", "usd", "tyd"} -> 3
      [] tok.w \in {"white", "carat", "karat", "price"} -> 5
      [] tok.w \in {"yellow", "asking", "priced"} -> 6
      [] OTHER -> 4

RECURSIVE WidthFrom(_, _, _)
WidthFrom(text, i, j) ==
    IF i >= j THEN 0 ELSE Width(Tok(text, i)) + WidthFrom(text, i + 1, j)

\* The guard of the k that PRICE_RE did not consume, lines 181-184: the
\* eight characters after the k, without leading slashes and then without
\* leading blanks, begin with a guard token.
KaratAfter(text, i) ==
    LET j == SkipBlanks(text, SkipSlashes(text, i))
    IN  /\ IsGuard(Tok(text, j))
        /\ WidthFrom(text, i, j) + Width(Tok(text, j)) <= 8

NoMatch == [ok |-> FALSE, end |-> 0, raw |-> None, is_k |-> FALSE]

Matched(end, tok, is_k) ==
    [ok |-> TRUE, end |-> end, raw |-> tok.num, is_k |-> is_k]

\* PRICE_RE matched at position i: its six alternatives in their order.
\* end is the position after the match, raw the first group that is set,
\* is_k whether that is group 3.
MatchAt(text, i) ==
    LET tok == Tok(text, i)
        word == Lower(tok.w)
        j == SkipBlanks(text, i + 1)
        next == Tok(text, j)
        \* (?:asking|priced?\s*(?:at|:)?)\s*\$?\s*
        a1 == IF word \in {"price", "priced"} /\ Tok(text, j).w \in {"at", ":"}
              THEN SkipBlanks(text, j + 1) ELSE j
        a2 == IF Tok(text, a1).w = "$" THEN SkipBlanks(text, a1 + 1) ELSE a1
    IN  IF tok.w = "$" /\ IsNum(next) THEN Matched(j + 1, next, FALSE)
        ELSE IF IsNum(tok) /\ Lower(next.w) = "usd"
        THEN Matched(j + 1, tok, FALSE)
        ELSE IF /\ IsNum(tok)
                /\ IsK(next)
                /\ ~KaratLookahead(text, j + 1)
                /\ Boundary(text, j + 1)
        THEN Matched(j + 1, tok, TRUE)
        ELSE IF word = "usd" /\ IsNum(next) THEN Matched(j + 1, next, FALSE)
        ELSE IF word \in {"asking", "price", "priced"} /\ IsNum(Tok(text, a2))
        THEN Matched(a2 + 1, Tok(text, a2), FALSE)
        ELSE IF /\ IsNum(tok)
                /\ Lower(next.w) \in {"obo", "shipped", "firm", "tyd"}
                /\ Boundary(text, j + 1)
        THEN Matched(j + 1, tok, FALSE)
        ELSE NoMatch

\* Lines 178-184: is_k of the match, or the k right after it.
Promoted(text, m) ==
    \/ m.is_k
    \/ /\ IsK(Tok(text, m.end))
       /\ m.end \in DOMAIN text
       /\ ~KaratAfter(text, m.end + 1)

Pow10(d) == CASE d = 0 -> 1 [] d = 1 -> 10 [] d = 2 -> 100 [] d = 3 -> 1000

\* val *= 1000.  The integers of the model end at 2^31: a product above the
\* band is any value above the band.
Thousandfold(val) ==
    IF val > (500000 * 100) \div 1000 THEN 500000 * 100 + 1 ELSE 1000 * val

\* float(raw), times 1000 when is_k, in hundredths: a decimal comma when is_k
\* and one or two digits follow the comma, a thousands separator otherwise.
Hundredths(raw, is_k) ==
    LET decimal == \/ raw.sep = "."
                   \/ raw.sep = "," /\ is_k /\ raw.d \in {1, 2}
        val == IF raw.sep = "" THEN 100 * raw.a
               ELSE IF decimal
               THEN 100 * raw.a + raw.b * Pow10(2 - raw.d)
               ELSE 100 * (raw.a * Pow10(raw.d) + raw.b)
    IN  IF ~is_k THEN val
        ELSE Thousandfold(val)

\* 100 <= val <= 500_000
InBandNoCeiling(val) == 100 * 100 <= val

InBand(val) == 100 * 100 <= val /\ val <= 500000 * 100

\* The value of the match m of PRICE_RE in the text.
ValueOf(text, m) == Hundredths(m.raw[1], Promoted(text, m))

\* for m in PRICE_RE.finditer(text), from position i on.
RECURSIVE PriceScan(_, _)
PriceScan(text, i) ==
    IF i > Len(text) THEN None
    ELSE LET m == MatchAt(text, i)
         IN  IF ~m.ok THEN PriceScan(text, i + 1)
             ELSE IF InBand(ValueOf(text, m)) THEN Some(ValueOf(text, m))
             ELSE PriceScan(text, m.end)

\* extract_price, in hundredths.
extract_price(text) == PriceScan(text, 1)

\* A word of letters only.
IsLetters(tok) ==
    ~IsNum(tok) /\ tok.w \notin {"", " ", "/", "$", ":", "a.", "&"}
    /\ tok.w \notin {"gmt-master", "sea-dweller", "sky-dweller", "yacht-master",
                     "day-date", "air-king", "jaeger-lecoultre", "new/unworn"}

\* \b before position i and after position i: no word character adjoins.
BoundaryBefore(text, i) == Boundary(text, i - 1)

\* YEAR_RE on a number token: a number of 1950..2025 written without a
\* separator before it, between two word boundaries.
IsYear(text, i) ==
    LET tok == Tok(text, i)
    IN  /\ IsNum(tok)
        /\ tok.num[1].a \in 1950..2025
        /\ BoundaryBefore(text, i)
        /\ tok.num[1].sep # "" \/ Boundary(text, i + 1)

\* extract_year: the first match of YEAR_RE that is in 1950..2025.
extract_year(text) ==
    LET at == {i \in DOMAIN text : IsYear(text, i)}
    IN  IF at = {} THEN None
        ELSE Some(text[CHOOSE i \in at : \A j \in at : i <= j].num[1].a)

\* REFERENCE_RE at a number token written without separator: 1 and four or
\* five digits with up to three letters, 5 and three digits with one to four
\* letters, four digits with one to three letters; group(0) is the number
\* and the letters, as tokens.
ReferenceAt(text, i) ==
    LET tok == Tok(text, i)
        a == tok.num[1].a
        next == Tok(text, i + 1)
        letters == IF IsLetters(next) THEN Width(next) ELSE 0
        bare == tok.num[1].sep = "" /\ Boundary(text, i + 1)
        suffixed == tok.num[1].sep = "" /\ letters > 0 /\ Boundary(text, i + 2)
    IN  IF ~IsNum(tok) \/ ~BoundaryBefore(text, i) THEN None
        ELSE IF a \in 10000..199999 /\ bare THEN Some(<<tok>>)
        ELSE IF a \in 10000..199999 /\ suffixed /\ letters <= 3
        THEN Some(<<tok, next>>)
        ELSE IF a \in 5000..5999 /\ suffixed /\ letters <= 4
        THEN Some(<<tok, next>>)
        ELSE IF a \in 1000..9999 /\ suffixed /\ letters <= 3
        THEN Some(<<tok, next>>)
        ELSE None

\* extract_reference: REFERENCE_RE.search(text)
extract_reference(text) ==
    LET at == {i \in DOMAIN text : ReferenceAt(text, i) # None}
    IN  IF at = {} THEN None
        ELSE ReferenceAt(text, CHOOSE i \in at : \A j \in at : i <= j)

\* The tables, in the order of their dict literals; len is len(key).
ROLEX_MODELS ==
    <<[key |-> <<"datejust">>, val |-> "Datejust", len |-> 8],
      [key |-> <<"submariner">>, val |-> "Submariner", len |-> 10],
      [key |-> <<"daytona">>, val |-> "Daytona", len |-> 7],
      [key |-> <<"gmt-master", " ", "ii">>, val |-> "GMT-Master II", len |-> 13],
      [key |-> <<"gmt-master">>, val |-> "GMT-Master II", len |-> 10],
      [key |-> <<"gmt", " ", "master">>, val |-> "GMT-Master II", len |-> 10],
      [key |-> <<"explorer", " ", "ii">>, val |-> "Explorer II", len |-> 11],
      [key |-> <<"explorer">>, val |-> "Explorer", len |-> 8],
      [key |-> <<"air-king">>, val |-> "Air-King", len |-> 8],
      [key |-> <<"milgauss">>, val |-> "Milgauss", len |-> 8],
      [key |-> <<"sea-dweller">>, val |-> "Sea-Dweller", len |-> 11],
      [key |-> <<"sky-dweller">>, val |-> "Sky-Dweller", len |-> 11],
      [key |-> <<"yacht-master">>, val |-> "Yacht-Master", len |-> 12],
      [key |-> <<"day-date">>, val |-> "Day-Date", len |-> 8],
      [key |-> <<"president">>, val |-> "Day-Date", len |-> 9],
      [key |-> <<"cellini">>, val |-> "Cellini", len |-> 7],
      [key |-> <<"pearlmaster">>, val |-> "Pearlmaster", len |-> 11],
      [key |-> <<"oysterquartz">>, val |-> "Oysterquartz", len |-> 12]>>

CONDITION_MAP ==
    <<[key |-> <<"new/unworn">>, val |-> "New/Unworn", len |-> 10],
      [key |-> <<"new", " ", "unworn">>, val |-> "New/Unworn", len |-> 10],
      [key |-> <<"unworn">>, val |-> "New/Unworn", len |-> 6],
      [key |-> <<"brand", " ", "new">>, val |-> "New/Unworn", len |-> 9],
      [key |-> <<"mint">>, val |-> "Mint", len |-> 4],
      [key |-> <<"excellent">>, val |-> "Excellent", len |-> 9],
      [key |-> <<"very", " ", "good">>, val |-> "Very Good", len |-> 9],
      [key |-> <<"good">>, val |-> "Good", len |-> 4],
      [key |-> <<"fair">>, val |-> "Fair", len |-> 4]>>

\* for key, val in sorted(table.items(), key=lambda x: -len(x[0])):
\*     if key in lower: return val
\* sorted is stable: of two keys of one length the earlier entry comes first.
TableOrderFirst(table, words) ==
    LET hits == {i \in DOMAIN table : Occurs(table[i].key, words)}
    IN  IF hits = {} THEN None
        ELSE Some(table[CHOOSE i \in hits : \A j \in hits : i <= j].val)

LongestFirst(table, words) ==
    LET hits == {i \in DOMAIN table : Occurs(table[i].key, words)}
        First(i) == \A j \in hits :
                        \/ table[j].len < table[i].len
                        \/ table[j].len = table[i].len /\ i <= j
    IN  IF hits = {} THEN None
        ELSE Some(table[CHOOSE i \in hits : First(i)].val)

\* extract_model(text, brand)
extract_model(text, brand) ==
    IF brand # None /\ brand[1] = "Rolex"
    THEN LongestFirst(ROLEX_MODELS, LowerWords(text))
    ELSE None

extract_condition(text) == LongestFirst(CONDITION_MAP, LowerWords(text))

\* The words of a title, for is_for_sale.
TitleOf(text) ==
    LET words == SelectSeq(text, LAMBDA tok : ~IsBlank(tok))
    IN  [i \in DOMAIN words |-> words[i].w]

Extractors ==
    {"price", "year", "reference", "brand", "model", "condition", "for_sale"}

\* One call of extractor f on the text.  The parsers give extract_model the
\* brand extract_brand found in the text.
Extract(f, text) ==
    CASE f = "price" -> extract_price(text)
      [] f = "year" -> extract_year(text)
      [] f = "reference" -> extract_reference(text)
      [] f = "brand" -> extract_brand(text)
      [] f = "model" -> extract_model(text, extract_brand(text))
      [] f = "condition" -> extract_condition(text)
      [] f = "for_sale" -> Some(is_for_sale(TitleOf(text)))

\* What a call of extractor f returns when calls made before it have
\* returned memory: an extract_model that takes the brand from the last
\* extract_brand call.
CallRemembering(f, text, memory) ==
    IF f = "model"
    THEN extract_model(text, IF memory["brand"] = None THEN None
                             ELSE memory["brand"][1])
    ELSE Extract(f, text)

\* The extractors read their argument and the module's tables and regular
\* expressions, which nothing writes.
Call(f, text, memory) == Extract(f, text)

\* Words joined by single blanks.
Join(ws) ==
    [i \in 1..(2 * Len(ws) - 1) |->
        IF i % 2 = 1 THEN Word(ws[(i + 1) \div 2]) ELSE Word(" ")]

BrandWords ==
    {"Rolex", "submariner", "Royal", "oak", "patek", "philippe", "grand",
     "seiko", "explorer", "ii", "cellini"}

BrandTexts == {Join(ws) : ws \in UNION {[1..n -> BrandWords] : n \in 1..MaxWords}}

\* Numbers as sellers write them: plain, with decimals, with a decimal
\* comma, with a thousands separator; on and off the edges of the band.
PriceNumbers ==
    {Written(18, "", 0, 0), Written(8, ".", 5, 1), Written(5, ",", 5, 1),
     Written(5, ",", 500, 3), Written(99, ".", 99, 2), Written(100, "", 0, 0),
     Written(500, ",", 0, 3), Written(500, ",", 1, 3), Written(8500, "", 0, 0)}

PricePrefixes ==
    {<<>>, <<Word("$")>>, <<Word("asking"), Word(" ")>>,
     <<Word("USD"), Word(" ")>>}

PriceSuffixes ==
    {<<>>, <<Word("k")>>, <<Word(" "), Word("k")>>,
     <<Word("k"), Word(" "), Word("gold")>>,
     <<Word("K"), Word("/"), Word("SS")>>,
     <<Word("k"), Word("/"), Word(" "), Word("gold")>>,
     <<Word("k"), Word(" "), Word("/"), Word("gold")>>,
     <<Word("k"), Word(" "), Word("obo")>>,
     <<Word(" "), Word("USD")>>, <<Word(" "), Word("obo")>>}

\* What follows the first number of a text: nothing, or a second price.
PriceTails ==
    {<<>>, <<Word(" "), Word("$"), Written(8500, "", 0, 0)>>,
     <<Word(" "), Written(9, ".", 5, 1), Word("k")>>}

PriceTexts ==
    {pre \o <<n>> \o suf \o tail :
        pre \in PricePrefixes, n \in PriceNumbers, suf \in PriceSuffixes,
        tail \in PriceTails}

\* Listing titles and bodies that every extractor finds something in, or
\* nothing.
Samples ==
    {Join(<<"WTB", "Rolex", "submariner">>)
         \o <<Word(" "), Written(16610, "", 0, 0), Word(" "),
              Written(2007, "", 0, 0), Word(" "), Word("Mint"), Word(" "),
              Word("$"), Written(8500, "", 0, 0)>>,
     Join(<<"FS", "Rolex", "explorer", "ii", "very", "good">>)
         \o <<Word(" "), Written(8, ".", 5, 1), Word("k"), Word(" "),
              Word("obo")>>,
     Join(<<"Royal", "oak", "excellent">>)
         \o <<Word(" "), Written(15202, "", 0, 0), Word(" "),
              Written(18, "", 0, 0), Word("k"), Word(" "), Word("gold")>>,
     Join(<<"seiko", "fair">>)
         \o <<Word(" "), Written(1999, "", 0, 0), Word(" "),
              Written(50, "", 0, 0), Word(" "), Word("USD")>>,
     Join(<<"grand", "seiko">>),
     <<Written(8500, "", 0, 0), Word("obo")>>}

\* One call of an extractor on the text in hand; extracted[f] is None until
\* f is called, and then what its last call returned.
Apply(f) ==
    /\ doc # <<>>
    /\ IF extracted[f] = None
       THEN /\ again \/ \A g \in Extractors : extracted[g] = None
            /\ nRepeat' = nRepeat
       ELSE /\ again
            /\ nRepeat < MaxRepeat
            /\ nRepeat' = nRepeat + 1
    /\ extracted' = [extracted EXCEPT ![f] = Some(Call(f, doc, extracted))]
    /\ UNCHANGED <<doc, again, dbVars, runVars, imageVars, priceVars, orchVars,
                   fillVars, restVars>>

\* One extractor is called once, on any text.
ExtractInit ==
    /\ DbInit
    /\ NoRun
    /\ NoImage
    /\ NoPrice
    /\ NoOrch
    /\ NoFill
    /\ NoRest
    /\ doc \in BrandTexts \cup PriceTexts
    /\ extracted = [f \in Extractors |-> None]
    /\ again = FALSE
    /\ nRepeat = 0

\* The extractors are called on one text again and again, in any order.
PureInit ==
    /\ DbInit
    /\ NoRun
    /\ NoImage
    /\ NoPrice
    /\ NoOrch
    /\ NoFill
    /\ NoRest
    /\ doc \in Samples
    /\ extracted = [f \in Extractors |-> None]
    /\ again = TRUE
    /\ nRepeat = 0

ExtractNext == \E f \in Extractors : Apply(f)

SpecExtract == ExtractInit /\ [][ExtractNext]_vars

SpecPure == PureInit /\ [][ExtractNext]_vars

(***************************************************************************)
(* scraper.py: RedditWatchexchangeScraper._fetch_op_comment                *)
(***************************************************************************)

\* len(str) of a number as written.
Digits(a) ==
    IF a < 10 THEN 1 ELSE IF a < 100 THEN 2 ELSE IF a < 1000 THEN 3
    ELSE IF a < 10000 THEN 4 ELSE 5

\* len(text)
RECURSIVE Chars(_)
Chars(text) ==
    IF text = <<>> THEN 0
    ELSE LET tok == Head(text)
             n == IF ~IsNum(tok) THEN IF tok.w = "" THEN 0 ELSE Width(tok)
                  ELSE Digits(tok.num[1].a)
                       + (IF tok.num[1].sep = "" THEN 0 ELSE 1 + tok.num[1].d)
         IN  n + Chars(Tail(text))

\* PRICE_RE.search(b)
PriceSearch(text) == \E i \in DOMAIN text : MatchAt(text, i).ok

\* max(bodies, key=len): the first of the longest.
Longest(bodies) ==
    bodies[CHOOSE i \in DOMAIN bodies :
              /\ \A j \in DOMAIN bodies : Chars(bodies[j]) <= Chars(bodies[i])
              /\ \A j \in 1..(i - 1) : Chars(bodies[j]) < Chars(bodies[i])]

\* Lines 717-720: the comments the loop passes over.
Passed(c) ==
    \/ c.body = <<>>
    \/ c.body \in {<<Word("[deleted]")>>, <<Word("[removed]")>>}
    \/ Lower(c.author) = "automoderator"

\* The bodies of the comments cs, in their order.
BodiesOf(cs) == [i \in DOMAIN cs |-> cs[i].body]

\* candidates = op_comments if op_comments else non_mod_comments
PreferredPooled(op_comments, non_mod_comments) ==
    op_comments \o non_mod_comments

Preferred(op_comments, non_mod_comments) ==
    IF op_comments # <<>> THEN op_comments ELSE non_mod_comments

\* _fetch_op_comment on the comments of the thread, lines 710-733.
SelectComment(cs, op_author) ==
    LET ByOp(c) == /\ ~Passed(c)
                   /\ op_author # ""
                   /\ Lower(c.author) = Lower(op_author)
        Usable(c) == ~Passed(c)
        op_comments == BodiesOf(SelectSeq(cs, ByOp))
        non_mod_comments == BodiesOf(SelectSeq(cs, Usable))
        chosen == Preferred(op_comments, non_mod_comments)
        with_price == SelectSeq(chosen, PriceSearch)
    IN  IF with_price # <<>> THEN Longest(with_price)
        ELSE IF chosen # <<>> THEN Longest(chosen)
        ELSE <<>>

\* The comments a thread may hold, by the seller, by others, by the
\* moderator bot; deleted and removed ones; with a price and without.
CommentUniverse ==
    {[author |-> "op",
      body |-> <<Word("Mint"), Word(" "), Word("$"), Written(8500, "", 0, 0)>>],
     [author |-> "OP",
      body |-> Join(<<"FS", "Rolex", "submariner", "excellent">>)],
     [author |-> "op", body |-> <<Word("[deleted]")>>],
     [author |-> "buyer",
      body |-> <<Written(8, ".", 5, 1), Word("k"), Word(" "), Word("obo")>>],
     [author |-> "buyer", body |-> Join(<<"grand", "seiko", "very", "good">>)],
     [author |-> "buyer", body |-> <<Word("[removed]")>>],
     [author |-> "AutoModerator",
      body |-> Join(<<"asking", "price", "submariner", "explorer">>)
                   \o <<Word(" "), Word("$"), Written(8500, "", 0, 0)>>]}

\* What the request for the thread meets: no response or a status other
\* than 200 or JSON that is no list of two, or the thread's comments.
Replies ==
    {[ok |-> FALSE, comments |-> <<>>]}
        \cup {[ok |-> TRUE, comments |-> cs] :
                 cs \in UNION {[1..n -> CommentUniverse] : n \in 0..MaxComments}}

\* One call of _fetch_op_comment.
FetchOpComment ==
    /\ reply # <<>>
    /\ picked = None
    /\ picked' = Some(IF reply.ok
                      THEN SelectComment(reply.comments, reply.op_author)
                      ELSE <<>>)
    /\ UNCHANGED <<reply, dbVars, runVars, imageVars, priceVars, orchVars,
                   extractVars, fillVars, getVars, appVars, raceVars>>

\* _fetch_op_comment is called for a post with or without a known author.
PickInit ==
    /\ DbInit
    /\ NoRun
    /\ NoImage
    /\ NoPrice
    /\ NoOrch
    /\ NoExtract
    /\ NoFill
    /\ NoGet
    /\ NoApp
    /\ NoRace
    /\ \E r \in Replies, a \in {"op", ""} :
          reply = [ok |-> r.ok, comments |-> r.comments, op_author |-> a]
    /\ picked = None

PickNext == FetchOpComment

SpecPick == PickInit /\ [][PickNext]_vars

(***************************************************************************)
(* app.py: POST /api/scrape                                                *)
(***************************************************************************)

\* _scrape_lock.locked()
Locked(held, status) == held

\* The threads api_scrape has started whose _run is not over.  A request
\* not made yet is "unborn"; one that started no thread is "ended".
InProgress == {t \in DOMAIN runner : runner[t] \notin {"unborn", "ended"}}

\* api_scrape, lines 107-141: a request is rejected when the lock is held;
\* else its body is read (pages or target_year that is no number raises)
\* and a thread is started on _run.  Nothing acquires _scrape_lock.
ApiScrape ==
    /\ runner # <<>>
    /\ \E t \in DOMAIN runner :
        /\ runner[t] = "unborn"
        /\ \A u \in 1..(t - 1) : runner[u] # "unborn"
        /\ IF Locked(scrape_lock, scrape_status)
           THEN /\ httpReply' = Some([code |-> 409, during |-> InProgress])
                /\ runner' = [runner EXCEPT ![t] = "ended"]
           ELSE \/ /\ httpReply' = Some([code |-> 500, during |-> InProgress])
                   /\ runner' = [runner EXCEPT ![t] = "ended"]
                \/ /\ httpReply' = Some([code |-> 200, during |-> InProgress])
                   /\ runner' = [runner EXCEPT ![t] = "started"]
    /\ UNCHANGED <<scrape_lock, scrape_status, dbVars, runVars, imageVars,
                   priceVars, orchVars, extractVars, fillVars, getVars,
                   pickVars, raceVars>>

\* _run, lines 119-120.
RunBegins(t) ==
    /\ runner[t] = "started"
    /\ runner' = [runner EXCEPT ![t] = "running"]
    /\ scrape_status' = [scrape_status EXCEPT !.running = TRUE,
                                              !.progress = NULL]
    /\ UNCHANGED <<scrape_lock, httpReply, dbVars, runVars, imageVars,
                   priceVars, orchVars, extractVars, fillVars, getVars,
                   pickVars, raceVars>>

\* progress_callback=lambda p: _scrape_status.update({"progress": p})
RunProgress(t) ==
    /\ runner[t] = "running"
    /\ scrape_status' = [scrape_status EXCEPT !.progress = t]
    /\ UNCHANGED <<scrape_lock, runner, httpReply, dbVars, runVars, imageVars,
                   priceVars, orchVars, extractVars, fillVars, getVars,
                   pickVars, raceVars>>

\* _run, lines 121-134: run_all_scrapers returns, or it or _load_cookies
\* raises.
RunResult(t) ==
    /\ runner[t] = "running"
    /\ runner' = [runner EXCEPT ![t] = "finally"]
    /\ \E outcome \in {"completed", "failed"} :
          scrape_status' = [scrape_status EXCEPT !.last_result = outcome]
    /\ UNCHANGED <<scrape_lock, httpReply, dbVars, runVars, imageVars,
                   priceVars, orchVars, extractVars, fillVars, getVars,
                   pickVars, raceVars>>

\* _run, lines 135-136: finally.
RunFinally(t) ==
    /\ runner[t] = "finally"
    /\ runner' = [runner EXCEPT ![t] = "ended"]
    /\ scrape_status' = [scrape_status EXCEPT !.running = FALSE]
    /\ UNCHANGED <<scrape_lock, httpReply, dbVars, runVars, imageVars,
                   priceVars, orchVars, extractVars, fillVars, getVars,
                   pickVars, raceVars>>

\* The application after import, lines 27-29, and MaxRequests requests to
\* come.
AppInit ==
    /\ DbInit
    /\ NoRun
    /\ NoImage
    /\ NoPrice
    /\ NoOrch
    /\ NoExtract
    /\ NoFill
    /\ NoGet
    /\ NoPick
    /\ NoRace
    /\ scrape_lock = FALSE
    /\ scrape_status = [running |-> FALSE, progress |-> NULL,
                        last_result |-> NULL]
    /\ runner = [t \in 1..MaxRequests |-> "unborn"]
    /\ httpReply = None

AppNext ==
    \/ ApiScrape
    \/ \E t \in DOMAIN runner : RunBegins(t)
    \/ \E t \in DOMAIN runner : RunProgress(t)
    \/ \E t \in DOMAIN runner : RunResult(t)
    \/ \E t \in DOMAIN runner : RunFinally(t)

SpecApp == AppInit /\ [][AppNext]_vars

(***************************************************************************)
(* scraper.py: BaseScraper._fetch_image called by pool workers on one URL  *)
(***************************************************************************)

\* The URL the workers acquire.
SharedUrl == <<"https", "i.imgur.com", "a.jpg">>

\* Where a worker is in _fetch_image: testing the cache for Exts[i]
\* (<<"exists", i>>), requesting the image, about to open the cache file,
\* writing it, or returned.
AtExists(i) == <<"exists", i>>

\* The step after a call has returned result.
Returned(w, result) ==
    acquirer' = [acquirer EXCEPT ![w] = [at |-> <<"done">>, ext |-> NULL,
                                         clean |-> FALSE, result |-> result]]

\* Lines 359-361, one turn of the loop: (IMAGE_DIR / (url_hash + ext)).exists()
TestCache(w) ==
    /\ Len(acquirer[w].at) = 2
    /\ LET i == acquirer[w].at[2]
       IN  IF Exts[i] \in DOMAIN disk
           THEN Returned(w, CachePath(url_hash(SharedUrl), Exts[i]))
           ELSE acquirer' =
                  [acquirer EXCEPT ![w].at = IF i < Len(Exts) THEN AtExists(i + 1)
                                             ELSE <<"request">>]
    /\ UNCHANGED <<disk, dbVars, runVars, imageVars, priceVars, orchVars,
                   extractVars, fillVars, getVars, pickVars, appVars>>

\* Lines 363-397: the direct request answers with an image of some type; or
\* nothing usable is answered and the URL is returned for the browser.
RequestImage(w) ==
    /\ acquirer[w].at = <<"request">>
    /\ \E direct \in {"image/jpeg", "image/png", "text/html", "failed"} :
          IF direct # "failed" /\ IsImageType(direct)
          THEN acquirer' = [acquirer EXCEPT ![w].at = <<"open">>,
                                            ![w].ext = ExtOf(direct)]
          ELSE Returned(w, NotCached(SharedUrl))
    /\ UNCHANGED <<disk, dbVars, runVars, imageVars, priceVars, orchVars,
                   extractVars, fillVars, getVars, pickVars, appVars>>

\* filepath.write_bytes(resp.content), line 403: open(filepath, "wb")
\* creates the file or truncates it.  A worker that is writing the file is
\* no longer sure to leave it whole.
OpenFile(w) ==
    /\ acquirer[w].at = <<"open">>
    /\ disk' = [e \in DOMAIN disk \cup {acquirer[w].ext} |->
                   IF e = acquirer[w].ext THEN "part" ELSE disk[e]]
    /\ acquirer' =
         [u \in DOMAIN acquirer |->
            IF u = w THEN [acquirer[u] EXCEPT !.at = <<"write">>,
                                              !.clean = TRUE]
            ELSE IF acquirer[u].at = <<"write">>
                    /\ acquirer[u].ext = acquirer[w].ext
            THEN [acquirer[u] EXCEPT !.clean = FALSE]
            ELSE acquirer[u]]
    /\ UNCHANGED <<dbVars, runVars, imageVars, priceVars, orchVars,
                   extractVars, fillVars, getVars, pickVars, appVars>>

\* write_bytes writes the bytes and closes the file, lines 403-405; or it
\* raises (lines 408-409) and the URL is returned, lines 415-417.  The
\* bytes of a worker whose file was truncated under it may leave a gap.
WriteFile(w) ==
    /\ acquirer[w].at = <<"write">>
    /\ \/ /\ \E left \in (IF acquirer[w].clean THEN {"whole"}
                          ELSE {disk[acquirer[w].ext], "whole"}) :
                disk' = [disk EXCEPT ![acquirer[w].ext] = left]
          /\ Returned(w, CachePath(url_hash(SharedUrl), acquirer[w].ext))
       \/ /\ disk' = disk
          /\ Returned(w, NotCached(SharedUrl))
    /\ UNCHANGED <<dbVars, runVars, imageVars, priceVars, orchVars,
                   extractVars, fillVars, getVars, pickVars, appVars>>

\* MaxAcquirers workers enter _fetch_image on one URL that is not cached.
RaceInit ==
    /\ DbInit
    /\ NoRun
    /\ NoImage
    /\ NoPrice
    /\ NoOrch
    /\ NoExtract
    /\ NoFill
    /\ NoGet
    /\ NoPick
    /\ NoApp
    /\ disk = <<>>
    /\ acquirer = [w \in 1..MaxAcquirers |->
                     [at |-> AtExists(1), ext |-> NULL, clean |-> FALSE,
                      result |-> NULL]]

RaceNext ==
    \/ \E w \in DOMAIN acquirer : TestCache(w)
    \/ \E w \in DOMAIN acquirer : RequestImage(w)
    \/ \E w \in DOMAIN acquirer : OpenFile(w)
    \/ \E w \in DOMAIN acquirer : WriteFile(w)

SpecRace == RaceInit /\ [][RaceNext]_vars

(***************************************************************************)
(* scraper.py: backfill_reddit_prices                                      *)
(***************************************************************************)

\* re.search(r"/comments/([a-z0-9]+)/", listing_url) on a url given by its
\* path segments: the segment after "comments", when a slash follows it.
PostIdOf(url) ==
    LET at == {i \in DOMAIN url : url[i] = "comments" /\ i + 2 <= Len(url)}
    IN  IF at = {} THEN None
        ELSE Some(url[(CHOOSE i \in at : \A j \in at : i <= j) + 1])

\* Rows of the listings table: feed rows without a price (one of them with
\* a permalink that holds no post id), a feed row with a price, a forum row
\* without one.
StoredRows ==
    <<[id |-> 1, listing_url |-> <<"r", "Watchexchange", "comments", "1abc", "fs">>,
       source_id |-> "Reddit r/Watchexchange", date_found |-> 1,
       title |-> Join(<<"FS", "Rolex", "submariner">>), seller |-> Some("op"),
       image_url |-> Some("a.jpg"), is_active |-> TRUE, price |-> None,
       brand |-> Some("Rolex"), year |-> None, condition |-> None,
       description |-> Some(<<>>)],
      [id |-> 2, listing_url |-> <<"r", "Watchexchange", "comments", "2def", "seiko">>,
       source_id |-> "Reddit r/Watchexchange", date_found |-> 2,
       title |-> Join(<<"grand", "seiko">>), seller |-> None,
       image_url |-> None, is_active |-> FALSE, price |-> None,
       brand |-> None, year |-> Some(1999), condition |-> Some("Good"),
       description |-> Some(Join(<<"grand", "seiko", "fair">>))],
      [id |-> 3, listing_url |-> <<"gallery", "3ghi">>,
       source_id |-> "Reddit r/Watchexchange", date_found |-> 3,
       title |-> Join(<<"FS", "Rolex", "explorer">>), seller |-> Some("op"),
       image_url |-> None, is_active |-> TRUE, price |-> None,
       brand |-> Some("Rolex"), year |-> None, condition |-> None,
       description |-> None],
      [id |-> 4, listing_url |-> <<"r", "Watchexchange", "comments", "4jkl", "fs">>,
       source_id |-> "Reddit r/Watchexchange", date_found |-> 4,
       title |-> Join(<<"FS", "Rolex", "submariner">>), seller |-> Some("op"),
       image_url |-> None, is_active |-> TRUE, price |-> Some(850000),
       brand |-> Some("Rolex"), year |-> None, condition |-> None,
       description |-> None],
      [id |-> 5, listing_url |-> <<"forums", "showthread.php">>,
       source_id |-> "RolexForums", date_found |-> 5,
       title |-> Join(<<"FS", "Rolex", "submariner">>), seller |-> None,
       image_url |-> None, is_active |-> TRUE, price |-> None,
       brand |-> None, year |-> None, condition |-> None,
       description |-> None]>>

\* What _fetch_op_comment may return: "" (no comment, or the fetch failed),
\* a comment without a price, comments with one.
CommentThreads ==
    {<<>>,
     Join(<<"excellent">>) \o <<Word(" "), Written(2007, "", 0, 0)>>,
     <<Written(18, "", 0, 0), Word("k"), Word(" "), Word("gold")>>,
     <<Word("Mint"), Word(" "), Written(2007, "", 0, 0), Word(" "), Word("$"),
       Written(8500, "", 0, 0)>>,
     <<Written(8, ".", 5, 1), Word("k"), Word(" "), Word("obo")>>}

\* COALESCE(a, b)
COALESCE(a, b) == IF a # None THEN a ELSE b

\* NULLIF(a, b)
NULLIF(a, b) == IF a = Some(b) THEN None ELSE a

\* thread_body[:2000]
First2000(text) ==
    IF Len(text) <= 2000 THEN text ELSE SubSeq(text, 1, 2000)

\* The UPDATE of backfill_reddit_prices on the row it names.
BackfilledRowReactivated(r, price, brand, year, condition, thread_body) ==
    [r EXCEPT !.price = price,
              !.brand = COALESCE(r.brand, brand),
              !.year = COALESCE(r.year, year),
              !.condition = COALESCE(r.condition, condition),
              !.description =
                  COALESCE(NULLIF(r.description, <<>>),
                           Some(First2000(thread_body))),
              !.is_active = TRUE]

BackfilledRow(r, price, brand, year, condition, thread_body) ==
    [r EXCEPT !.price = price,
              !.brand = COALESCE(r.brand, brand),
              !.year = COALESCE(r.year, year),
              !.condition = COALESCE(r.condition, condition),
              !.description =
                  COALESCE(NULLIF(r.description, <<>>),
                           Some(First2000(thread_body)))]

\* SELECT id, listing_url, title, seller FROM listings
\* WHERE source_id=? AND price IS NULL, in rowid order.
RECURSIVE SelectUnpriced(_, _, _)
SelectUnpriced(tbl, source_id, id) ==
    IF id > Len(StoredRows) THEN <<>>
    ELSE IF /\ id \in DOMAIN tbl
            /\ tbl[id].source_id = source_id
            /\ tbl[id].price = None
    THEN <<[id |-> id, listing_url |-> tbl[id].listing_url,
            title |-> tbl[id].title, seller |-> tbl[id].seller]>>
             \o SelectUnpriced(tbl, source_id, id + 1)
    ELSE SelectUnpriced(tbl, source_id, id + 1)

\* Lines 929-943: the SELECT.
BackfillSelect ==
    /\ fillpc = "called"
    /\ rows' = SelectUnpriced(watches, "Reddit r/Watchexchange", 1)
    /\ fillpc' = "loop"
    /\ UNCHANGED <<watches, atStart, tally, dbVars, runVars, imageVars,
                   priceVars, orchVars, extractVars, restVars>>

\* Lines 944-982: one iteration of the loop over rows.
BackfillRow ==
    /\ fillpc = "loop"
    /\ rows # <<>>
    /\ LET row == Head(rows)
           m == PostIdOf(row.listing_url)
           Skip == /\ tally' = Bump(tally, "skipped")
                   /\ watches' = watches
       IN  IF m = None THEN Skip
           ELSE \E thread_body \in CommentThreads :
                LET whole == row.title \o <<Word(" ")>> \o thread_body
                    price == extract_price(whole)
                    brand == IF extract_brand(row.title) # None
                             THEN extract_brand(row.title)
                             ELSE extract_brand(whole)
                    year == extract_year(whole)
                    condition == extract_condition(whole)
                IN  IF thread_body = <<>> THEN Skip
                    ELSE IF price = None THEN Skip
                    ELSE \/ /\ watches' =
                                 [watches EXCEPT ![row.id] =
                                     BackfilledRow(@, price, brand, year,
                                                   condition, thread_body)]
                            /\ tally' = Bump(tally, "updated")
                         \/ \* sqlite3 raises: nothing is committed
                            /\ watches' = watches
                            /\ tally' = Bump(tally, "errors")
    /\ rows' = Tail(rows)
    /\ UNCHANGED <<atStart, fillpc, dbVars, runVars, imageVars, priceVars,
                   orchVars, extractVars, restVars>>

\* Line 985: return stats.
BackfillReturn ==
    /\ fillpc = "loop"
    /\ rows = <<>>
    /\ fillpc' = "returned"
    /\ UNCHANGED <<watches, atStart, rows, tally, dbVars, runVars, imageVars,
                   priceVars, orchVars, extractVars, restVars>>

\* backfill_reddit_prices is called on any table of stored rows.
FillInit ==
    /\ DbInit
    /\ NoRun
    /\ NoImage
    /\ NoPrice
    /\ NoOrch
    /\ NoExtract
    /\ NoRest
    /\ \E ids \in SUBSET DOMAIN StoredRows :
          watches = [id \in ids |-> StoredRows[id]]
    /\ atStart = watches
    /\ rows = <<>>
    /\ tally = [updated |-> 0, skipped |-> 0, errors |-> 0]
    /\ fillpc = "called"

FillNext == BackfillSelect \/ BackfillRow \/ BackfillReturn

SpecFill == FillInit /\ [][FillNext]_vars

(***************************************************************************)
(* The store: claims C1-C4, checked under Spec.                            *)
(***************************************************************************)

\* C1: after any interleaving of upsert_listing calls, two calls on one
\* listing_url that both ran their existence check before either wrote
\* included, the table holds at most one row per listing_url.
AtMostOneRowPerUrl ==
    \A u \in Urls : Cardinality(RowsOf(listings, u)) <= 1

\* C1's case: a call found no row, another call inserted the URL first, and
\* the first call's INSERT was rejected; one row is left.
RacingInsertRejected ==
    \E i \in DOMAIN log :
        /\ log[i].outcome = "IntegrityError"
        /\ Cardinality(RowsOf(listings, log[i].data.listing_url)) = 1

\* C2: every call of upsert_listing completes reporting is_new = true or
\* is_new = false, and reports is_new = true exactly when no row for the URL
\* existed before its write.
EveryUpsertReportsNewOrUpdated ==
    \A i \in DOMAIN log :
        /\ log[i].outcome \in {"new", "updated"}
        /\ (log[i].outcome = "new") <=> ~log[i].existed

\* The second of two calls in a row: it began after the first had completed,
\* no other call completed in between, and both carry the same payload.
SamePayloadTwiceInARow ==
    /\ Len(log) = 2
    /\ log[2].start = log[1].seq
    /\ log[2].data = log[1].data
    /\ log[1].outcome # "IntegrityError"

\* C3: upserting the same payload twice in a row returns the same id both
\* times, reports is_new = false the second time, leaves exactly one row for
\* the URL, and the row's mutable columns after the second call equal those
\* after the first, with is_active true.
RepeatedUpsertIsIdempotent ==
    SamePayloadTwiceInARow =>
        /\ log[2].id = log[1].id
        /\ log[2].outcome = "updated"
        /\ Cardinality(log[2].rowsAfter) = 1
        /\ {Mutable(r) : r \in log[2].rowsAfter}
              = {Mutable(r) : r \in log[1].rowsAfter}
        /\ \A r \in log[2].rowsAfter : r.is_active

\* C3's case: a payload inserted, the row deactivated, the payload upserted
\* again.
RepeatedUpsertAfterInsert ==
    /\ SamePayloadTwiceInARow
    /\ log[1].outcome = "new"
    /\ log[2].outcome = "updated"
    /\ \A r \in log[1].rowsAfter : r \in listings

Running == {i \in DOMAIN task : task[i].st = "running"}

\* C5: in a forum run, db.upsert_listing is called exactly once for every
\* new stub whose detail fetch and parse gave a listing, and for no other
\* stub, whatever order the pooled fetches complete in; once the pool of a
\* page is left every one of its stubs has been consumed, and when no call
\* failed every stub's URL is in the store.
ForumUpsertsEachParsedStubOnce ==
    adapter = "forum" =>
        /\ \A i \in DOMAIN task :
            /\ task[i].upserts <= 1
            /\ task[i].upserts = 1 => task[i].out = "listing"
            /\ task[i].st = "consumed" /\ task[i].out = "listing"
                  => task[i].upserts = 1
        /\ pc # "pool" =>
            /\ \A i \in DOMAIN task : task[i].st = "consumed"
            /\ faultsLeft = MaxFaults =>
                  \A i \in DOMAIN task :
                      /\ task[i].upserts = 1
                      /\ listing_url_exists(store, stubs[i].url)

\* C5's case: a later stub's fetch completed and its listing was upserted
\* while an earlier stub's fetch was still running; the run then returned
\* with every parsed stub upserted.
UpsertedOutOfSubmissionOrder ==
    /\ adapter = "forum"
    /\ \E i, j \in DOMAIN task :
        /\ i < j
        /\ task[i].st = "running"
        /\ task[j].st = "consumed"
        /\ task[j].upserts = 1
        /\ listing_url_exists(store, stubs[j].url)

\* C6: at no moment of a forum run are more than 5 detail fetches in
\* progress, however many new stubs the index page yields.
AtMostFiveFetchesInProgress ==
    adapter = "forum" => Cardinality(Running) <= MAX_WORKERS

\* C6's case: the page yields more new stubs than the pool has workers; five
\* fetches are in progress and a stub waits for a worker.
PoolFullStubWaiting ==
    /\ adapter = "forum"
    /\ Len(task) > MAX_WORKERS
    /\ Cardinality(Running) = MAX_WORKERS
    /\ \E i \in DOMAIN task : task[i].st = "queued"

(***************************************************************************)
(* Index pages: claims C7-C10, checked under SpecAdapter.                  *)
(***************************************************************************)

\* The latest index fetch was answered by the anti-bot challenge page on a
\* direct fetch.
ChallengeMet ==
    /\ lastIndex # None
    /\ ~lastIndex[1].proxy
    /\ lastIndex[1].net.kind = "response"
    /\ lastIndex[1].net.status = 403
    /\ lastIndex[1].net.challenge

\* The latest index fetch of the feed adapter was answered with HTTP 429.
RateLimitMet ==
    /\ adapter = "reddit"
    /\ lastIndex # None
    /\ lastIndex[1].net.kind = "response"
    /\ lastIndex[1].net.status = 429

\* C7: in both adapters, once an index page could not be fetched or parsed to
\* zero stubs/items, the run has counted one more error, has blocked = true,
\* and fetches no further index page.
FailedOrEmptyIndexBlocksRun ==
    lastIndex # None /\ lastIndex[1].result \in {"failed", "empty"} =>
        /\ stats.errors = lastIndex[1].before.errors + 1
        /\ stats.blocked
        /\ pc \in {"mark", "returned"}
        /\ nIndex = lastIndex[1].nIndex

\* C8: once an index fetch was answered by the challenge page (direct fetch,
\* HTTP 403 with the signature), the run is ending with blocked = true, no
\* index page and no detail page is fetched after it, and the threads, new
\* and updated counters keep the values they had before that fetch.
ChallengePageEndsRunBlocked ==
    ChallengeMet =>
        /\ stats.blocked
        /\ pc \in {"mark", "returned"}
        /\ nIndex = lastIndex[1].nIndex
        /\ nDetail = lastIndex[1].nDetail
        /\ stats.threads = lastIndex[1].before.threads
        /\ stats.new = lastIndex[1].before.new
        /\ stats.updated = lastIndex[1].before.updated

\* C8's case: a run that had already seen items on an earlier page met the
\* challenge page and returned.
ChallengeAfterItemsSeen ==
    /\ ChallengeMet
    /\ pc = "returned"
    /\ stats.blocked
    /\ lastIndex[1].nIndex > 1
    /\ lastIndex[1].before.threads > 0
    /\ lastIndex[1].before.new > 0

\* C9: once an index fetch of the feed adapter was answered with HTTP 429,
\* the run has not stopped and is about to fetch the same page, at the same
\* cursor, again; blocked is still false and no error was counted.
RateLimitRetriesSamePage ==
    RateLimitMet =>
        /\ pc = "index"
        /\ after = lastIndex[1].after
        /\ ~stats.blocked
        /\ stats.errors = lastIndex[1].before.errors

\* C10: the feed adapter fetches no index page after a page whose response
\* carried no cursor, nor after a page on which no item was new.
NoFetchAfterLastPage ==
    [][adapter = "reddit" /\ lastPage # None
          /\ (~lastPage[1].cursor \/ lastPage[1].new = 0)
       => nIndex' = nIndex]_vars

\* C10's case: a page carried a cursor but none of its items was new, the
\* requested page count was not yet reached, and the run returned.
StoppedOnPageWithNothingNew ==
    /\ adapter = "reddit"
    /\ pc = "returned"
    /\ lastPage # None
    /\ lastPage[1].cursor
    /\ lastPage[1].new = 0
    /\ lastPage[1].page_num + 1 < pages
    /\ nIndex = lastPage[1].page_num + 1

(***************************************************************************)
(* Termination: claim C11, checked under SpecAdapterFair.                  *)
(***************************************************************************)

\* C11: every adapter run makes at most `pages` index-page fetches and ends:
\* it returns its stats, whatever the fetches met (success, timeout, HTTP
\* error, rate limit, challenge page, empty page), unless a store call raised
\* out of run().
RunEndsWithinPages ==
    /\ [](nIndex <= pages)
    /\ <>(pc = "returned" \/ pc = "raised")

\* C11's case: a run of several pages fetched every page it was given; the
\* last fetch failed, and the run returned.
ReturnedAfterEveryPageFetched ==
    /\ pc = "returned"
    /\ pages > 1
    /\ nIndex = pages
    /\ lastIndex # None
    /\ lastIndex[1].result = "failed"

(***************************************************************************)
(* The image cache: claims C12 and C13, checked under SpecImage.           *)
(***************************************************************************)

\* Two _fetch_image calls in a row on one URL, the first not answered from
\* the cache.
SameUrlTwice ==
    /\ Len(shots) = 2
    /\ shots[1].url = shots[2].url
    /\ shots[1].via # "cache"

\* C12 as stated: acquiring the same image URL twice makes exactly one
\* network request in total and returns the same cache path both times, the
\* second acquisition being answered from the cache.
TwiceIsOneFetchAndOnePath ==
    SameUrlTwice =>
        /\ shots[1].net + shots[2].net = 1
        /\ shots[1].result.kind = "cache"
        /\ shots[2].result = shots[1].result
        /\ shots[2].via = "cache"

\* C12 amended: when an acquisition of a URL returns a cache path, the next
\* acquisition of the same URL is answered from the cache: it makes no
\* network request and returns the same path.  The two make one request in
\* total when the first one's direct fetch gave the image, and at most three
\* when the image came through _get.
CachedOnceThenNoFetch ==
    SameUrlTwice /\ shots[1].result.kind = "cache" =>
        /\ shots[2].via = "cache"
        /\ shots[2].net = 0
        /\ shots[2].result = shots[1].result
        /\ shots[1].via = "direct" => shots[1].net + shots[2].net = 1
        /\ shots[1].net + shots[2].net <= 3

\* C12's case: a picture stored as .png by a direct fetch is acquired again
\* and comes from the cache.
PngCachedThenReused ==
    /\ SameUrlTwice
    /\ shots[1].via = "direct"
    /\ shots[1].result = CachePath(url_hash(shots[1].url), ".png")
    /\ shots[2].via = "cache"
    /\ shots[2].result = shots[1].result
    /\ nNet = 1

\* C13: when every fetch attempt for a URL failed, the original URL is
\* returned exactly when the URL is no forum attachment (it is not of the
\* class retried through _get); for a URL of that class nothing is returned.
RawUrlOnlyForPlainLinks ==
    \A i \in DOMAIN shots :
        shots[i].via = "failed" =>
            /\ (shots[i].result.kind = "url") <=> ~shots[i].named
            /\ shots[i].named => shots[i].result.kind = "none"

(***************************************************************************)
(* The price resolver: claims C14-C16 and C20, checked under SpecPrice.    *)
(***************************************************************************)

\* C14: rate_price returns "N/A" when the market price is <= 0; otherwise
\* "Great" when asking/market <= 0.90, "Good" when it is in (0.90, 1.00],
\* "Fair" when in (1.00, 1.10], "High" above 1.10; asking 900 against market
\* 1000 is "Great", 1000 is "Good", 1100 is "Fair".
RatingFollowsRatioBands ==
    verdict # None =>
        LET a == job.asking
            m == job.market
            label == verdict[1]
        IN  /\ m <= 0 => label = "N/A"
            /\ m > 0 =>
                /\ label = "Great" <=> 10 * a <= 9 * m
                /\ label = "Good" <=> 9 * m < 10 * a /\ a <= m
                /\ label = "Fair" <=> m < a /\ 10 * a <= 11 * m
                /\ label = "High" <=> 10 * a > 11 * m
            /\ m = 1000 /\ a = 900 => label = "Great"
            /\ m = 1000 /\ a = 1000 => label = "Good"
            /\ m = 1000 /\ a = 1100 => label = "Fair"

\* C14's case: the boundary 0.90 itself, asking 900 against market 1000.
NineHundredOfThousandIsGreat ==
    /\ job.op = "rate_price"
    /\ job.asking = 900
    /\ job.market = 1000
    /\ verdict = Some("Great")

StageTag(stage) ==
    CASE stage = "search" -> "search_result"
      [] stage = "chart" -> "chart_page"
      [] stage = "marketplace" -> "marketplace_median"

\* C15: check_price queries its stages in the order search, chart page,
\* marketplace, a later one only when every earlier one gave no market price;
\* the result's provenance tag names the stage that gave the price; it is
\* "none" with rating "N/A" when no stage gave one, and no stage is queried
\* when the asking price is not positive.
StagesInOrderAndTagged ==
    quote # None =>
        LET q == quote[1]
            n == Len(q.stages)
        IN  /\ q.stages \in {<<>>, <<"search">>, <<"search", "chart">>,
                             <<"search", "marketplace">>,
                             <<"search", "chart", "marketplace">>}
            /\ \A i \in 1..(n - 1) : q.yields[i] = None
            /\ q.asking <= 0 => n = 0 /\ q.result = NoData
            /\ q.result.outcome = "returned" =>
                IF n > 0 /\ q.yields[n] # None
                THEN /\ q.result.source = StageTag(q.stages[n])
                     /\ q.result.market_price = q.yields[n]
                     /\ q.result.rating # "N/A"
                ELSE /\ q.result.source = "none"
                     /\ q.result.rating = "N/A"
                     /\ q.result.market_price = None

\* C15's case: the search result had no price, its chart page gave none, and
\* the marketplace median supplied the price.
AllThreeStagesQueried ==
    /\ job.op = "check_price"
    /\ quote # None
    /\ quote[1].stages = <<"search", "chart", "marketplace">>
    /\ quote[1].result.source = "marketplace_median"

\* The price a marketplace listing counts with: its price when that is a
\* positive number, its amount when it has no price (or price 0) and the
\* amount is a positive number, and nothing (0) otherwise.
ListedPrice(it) ==
    IF it.price.kind = "num" /\ it.price.v > 0 THEN it.price.v
    ELSE IF (it.price.kind = "absent" \/ (it.price.kind = "num" /\ it.price.v = 0))
            /\ it.amount.kind = "num" /\ it.amount.v > 0
    THEN it.amount.v
    ELSE 0

\* m is the k-th smallest of the positive listed prices of the page.
KthSmallest(page_items, k, m) ==
    LET counted == {i \in DOMAIN page_items : ListedPrice(page_items[i]) > 0}
    IN  /\ \E i \in counted : ListedPrice(page_items[i]) = m
        /\ Cardinality({i \in counted : ListedPrice(page_items[i]) < m}) < k
        /\ Cardinality({i \in counted : ListedPrice(page_items[i]) <= m}) >= k

PositiveCount(page_items) ==
    Cardinality({i \in DOMAIN page_items : ListedPrice(page_items[i]) > 0})

\* The marketplace was queried, its page held positive prices, and its median
\* is the market price of the result.
MedianGiven ==
    /\ quote # None
    /\ quote[1].page # None
    /\ PositiveCount(quote[1].page[1]) > 0
    /\ quote[1].result.outcome = "returned"

\* C16 as stated: the marketplace fallback returns the middle element of the
\* ascending positive prices for an odd count, and the lower of the two
\* central elements for an even count.
MedianIsLowerMiddle ==
    MedianGiven =>
        LET n == PositiveCount(quote[1].page[1])
        IN  /\ quote[1].result.source = "marketplace_median"
            /\ KthSmallest(quote[1].page[1], (n + 1) \div 2,
                           quote[1].result.market_price[1])

\* C16 amended: the middle element for an odd count, and the upper of the
\* two central elements for an even count: the element at index len // 2 of
\* the ascending list.
MedianIsUpperMiddle ==
    MedianGiven =>
        LET n == PositiveCount(quote[1].page[1])
        IN  /\ quote[1].result.source = "marketplace_median"
            /\ KthSmallest(quote[1].page[1], (n \div 2) + 1,
                           quote[1].result.market_price[1])

\* C16's case: [300, -50, 100] gives 300, the upper of 100 and 300.
UpperOfTwoPrices ==
    /\ MedianGiven
    /\ quote[1].page[1] = <<[price |-> Num(300), amount |-> Absent],
                            [price |-> Num(-50), amount |-> Absent],
                            [price |-> Num(100), amount |-> Absent]>>
    /\ quote[1].result.market_price = Some(300)

PriceFieldsAbsent(listing) ==
    /\ listing.price_rating = NULL
    /\ listing.market_price = None
    /\ listing.price_delta_pct = None
    /\ listing.watchcharts_url = NULL

\* C20: a listing leaves enrich_with_price with a price-analysis field only
\* if its year is the target year and it has a price; for every other listing
\* check_price is not called and the four fields are absent.
PriceFieldsOnlyForTargetYear ==
    item # None =>
        LET wanted == /\ job.listing.year = Some(TARGET_YEAR)
                      /\ job.listing.price # None
        IN  /\ ~PriceFieldsAbsent(item[1]) => wanted
            /\ ~wanted => quote = None /\ PriceFieldsAbsent(item[1])
            /\ quote = None => item[1] = job.listing

\* C20's case: a priced listing of the year before the target year came back
\* as it was, with check_price never called.
OtherYearLeftUnpriced ==
    /\ item # None
    /\ job.listing.year = Some(TARGET_YEAR - 1)
    /\ job.listing.price = Some(900)
    /\ job.listing.brand = "Rolex"
    /\ quote = None
    /\ PriceFieldsAbsent(item[1])

(***************************************************************************)
(* The orchestrator: claims C17 and C18, checked under SpecAll.            *)
(***************************************************************************)

\* The per-adapter counters: pages fetched, items seen, items new, items
\* updated, items priced, errors.
Counters == {"pages", "threads", "new", "updated", "priced", "errors"}

\* The entries of all_stats of source name that satisfy tagged.
EntriesOf(name, tagged) ==
    {i \in DOMAIN all_stats :
        all_stats[i].source = name /\ ("error" \in DOMAIN all_stats[i]) = tagged}

\* C17: the combined stats run_all_scrapers returns hold, for each
\* per-adapter counter (pages, items seen, new, updated, priced, errors), the
\* sum of that counter over the adapters that ran, and blocked is the
\* logical OR of their blocked flags.
CombinedSumsEveryCounter ==
    orch = "returned" =>
        /\ \A key \in Counters :
              /\ key \in DOMAIN combined[1]
              /\ combined[1][key] = SumOf(all_stats, key)
        /\ combined[1].blocked <=>
              \E i \in DOMAIN all_stats :
                  /\ "error" \notin DOMAIN all_stats[i]
                  /\ all_stats[i].blocked

\* C18: if constructing or running an adapter raises, run_all_scrapers still
\* runs every other selected adapter, lets no exception out, and records
\* exactly one error-tagged entry for the failed source; an adapter not named
\* in a non-empty source filter is never constructed or run.
FailureIsolatedPerSource ==
    /\ orch # "raised"
    /\ \A name \in SourceIds :
          /\ Skipped(name, sources) => name \notin tried /\ name \notin started
          /\ orch = "returned" /\ ~Skipped(name, sources) =>
                /\ name \in tried
                /\ name \notin failed => name \in started
                /\ Cardinality(EntriesOf(name, TRUE)) =
                       (IF name \in failed THEN 1 ELSE 0)
                /\ Cardinality(EntriesOf(name, FALSE)) =
                       (IF name \in failed THEN 0 ELSE 1)

\* C18's case: the forum adapter's construction raised, and the feed adapter
\* was run after it and its stats are in the report.
FeedRunAfterForumFailed ==
    /\ orch = "returned"
    /\ failed = {"RolexForums BST"}
    /\ "RolexForums BST" \notin started
    /\ "Reddit r/Watchexchange" \in started
    /\ Len(combined[1].sources) = 2
    /\ "error" \in DOMAIN combined[1].sources[1]
    /\ "error" \notin DOMAIN combined[1].sources[2]

(***************************************************************************)
(* The end of a run: claim C19, checked under SpecAdapter.                 *)
(***************************************************************************)

\* The run is over: run() returned its stats or an exception left it.
RunOver == adapter \in {"forum", "reddit"} /\ pc \in {"returned", "raised"}

\* C19: every adapter run, however it ends, updates its source's
\* last_scraped exactly once, at the end of the run and after its last
\* upsert: a run that is over has made one mark_source_scraped call, and a
\* run still going has made none.
EveryRunMarksItsSourceOnce ==
    adapter \in {"forum", "reddit"} =>
        last_scraped = (IF RunOver THEN 1 ELSE 0)

(***************************************************************************)
(* The progress callback: claims C21 and C22.                              *)
(***************************************************************************)

\* The run has completed an item of the page in hand: the forum run's
\* processed counter, the feed run's position among the page's children.
ItemCompleted ==
    \/ adapter = "forum" /\ pc = "pool" /\ processed > 0
    \/ adapter = "reddit" /\ pc = "items" /\ processed > 1

\* C21: in every adapter run, forum and feed alike, progress_callback is
\* invoked for each completed item with {source, current, processed, total};
\* processed counts the items completed on the page, one more per event, and
\* never exceeds total.
ProgressReportedPerItem ==
    ItemCompleted =>
        /\ progress # None
        /\ progress[1].source = SourceName(adapter)
        /\ progress[1].total = Len(stubs)
        /\ progress[1].processed <= progress[1].total
        /\ adapter = "forum" => progress[1].processed = processed
        /\ adapter = "reddit" => progress[1].processed = processed - 1

\* The iterations of the as_completed loop that are inside progress_callback.
Calling == {i \in DOMAIN task : task[i].st = "reporting"}

\* C22: within one adapter run progress_callback is never executing in two
\* threads at once, even while up to 5 pooled workers are completing
\* fetches: its calls are serialized.
CallbackNeverRunsTwiceAtOnce ==
    /\ Cardinality(Calling) <= 1
    /\ Cardinality(Running) <= MAX_WORKERS

\* C22's case: the callback is executing while 5 workers are in their
\* fetches.
CallbackWhilePoolIsFull ==
    /\ Cardinality(Calling) = 1
    /\ Cardinality(Running) = MAX_WORKERS

(***************************************************************************)
(* The field extractors: claims C23-C25 under SpecExtract, C26 under       *)
(* SpecPure.                                                               *)
(***************************************************************************)

\* The alias keywords that occur in the text, and where each occurs first.
KeysIn(text) ==
    {i \in DOMAIN BRAND_ALIASES : Occurs(BRAND_ALIASES[i].key, LowerWords(text))}

FirstStart(i, text) ==
    LET key == BRAND_ALIASES[i].key
        words == LowerWords(text)
        starts == {n \in DOMAIN words :
                      /\ n + Len(key) - 1 <= Len(words)
                      /\ \A m \in DOMAIN key : words[n + m - 1] = key[m]}
    IN  CHOOSE n \in starts : \A m \in starts : n <= m

Leftmost(i, text) ==
    \A j \in KeysIn(text) : FirstStart(i, text) <= FirstStart(j, text)

\* C23: extract_brand returns the brand of the alias keyword whose first
\* occurrence is leftmost in the text, whatever the keyword's length and
\* place in the table ("Rolex ... Royal Oak" is Rolex); it returns unknown
\* iff no keyword occurs; keywords that start at one position map to one
\* brand.
BrandOfLeftmostKeyword ==
    extracted["brand"] # None =>
        LET brand == extracted["brand"][1]
        IN  /\ brand = None <=> KeysIn(doc) = {}
            /\ \A i \in KeysIn(doc) :
                  Leftmost(i, doc) => brand = Some(BRAND_ALIASES[i].val)
            /\ doc = Join(<<"Rolex", "Royal", "oak">>) => brand = Some("Rolex")

\* C23's case: the later and longer keyword "royal oak" stands behind
\* "rolex".
RolexBeforeRoyalOak ==
    /\ doc = Join(<<"Rolex", "Royal", "oak">>)
    /\ extracted["brand"] = Some(Some("Rolex"))

\* The values of the candidates of the text, in text order: the matches of
\* PRICE_RE from position i on.
RECURSIVE Candidates(_, _)
Candidates(text, i) ==
    IF i > Len(text) THEN <<>>
    ELSE IF ~MatchAt(text, i).ok THEN Candidates(text, i + 1)
    ELSE <<ValueOf(text, MatchAt(text, i))>>
             \o Candidates(text, MatchAt(text, i).end)

Plausible(val) == 10000 <= val /\ val <= 50000000

\* C24: extract_price never returns a value below 100 or above 500,000; a
\* candidate outside the band is no match and the scan goes on: the result
\* is the first candidate in text order that lies in the band, unknown if
\* there is none.
PriceIsFirstCandidateInBand ==
    extracted["price"] # None =>
        LET price == extracted["price"][1]
            cands == Candidates(doc, 1)
            inband == {n \in DOMAIN cands : Plausible(cands[n])}
        IN  /\ price # None => Plausible(price[1])
            /\ price = None <=> inband = {}
            /\ \A n \in inband :
                  (\A m \in inband : n <= m) => price = Some(cands[n])

\* C24's case: "$18 $8500": the first candidate is below the band, the
\* second is returned.
SecondCandidateReturned ==
    /\ doc = <<Word("$"), Written(18, "", 0, 0), Word(" "), Word("$"),
               Written(8500, "", 0, 0)>>
    /\ extracted["price"] = Some(Some(850000))

\* The positions of the numbers of the text.
NumbersIn(text) == {n \in DOMAIN text : IsNum(text[n])}

\* What extract_price returns on a text whose one number is taken times
\* 1000, or as written.
PriceWhen(text, times1000) ==
    LET n == CHOOSE n \in NumbersIn(text) : TRUE
        val == Hundredths(text[n].num[1], times1000)
    IN  IF InBand(val) THEN Some(val) ELSE None

\* C25: a number immediately followed by "k" is multiplied by 1000
\* ("8.5k" is 8500.00, "5,5k" is 5500), unless a karat or material guard
\* token follows the k, as PRICE_RE reads "follows" (blanks, at most one
\* slash, blanks, token): then the number is not promoted, and "18k gold"
\* yields no price.
KPromotesUnlessKaratGuard ==
    /\ extracted["price"] # None
    /\ Cardinality(NumbersIn(doc)) = 1
    /\ \E n \in NumbersIn(doc) : IsK(Tok(doc, n + 1))
    => LET n == CHOOSE n \in NumbersIn(doc) : TRUE
           price == extracted["price"][1]
       IN  IF KaratLookahead(doc, n + 2)
           THEN price # PriceWhen(doc, TRUE) \/ price = None
           ELSE price = PriceWhen(doc, TRUE)

\* C25's failing call: extract_price("$18k /gold") returned 18000.00.
KaratTakenForThousands ==
    /\ doc = <<Word("$"), Written(18, "", 0, 0), Word("k"), Word(" "),
               Word("/"), Word("gold")>>
    /\ extracted["price"] = Some(Some(1800000))

Marked(title, markers) ==
    \E m \in markers : Occurs(m, [i \in DOMAIN title |-> Lower(title[i])])

FourMarkers ==
    {<<"wtb">>, <<"iso">>, <<"in", "search", "of">>, <<"want", "to", "buy">>}

FiveMarkers == FourMarkers \cup {<<"wantto", "buy">>}

\* A step fetches the detail page of an item, or upserts an item, only if
\* its title holds none of the markers.
WantedNeverImported(markers) ==
    /\ \A i \in DOMAIN task :
          (i \in DOMAIN task' /\ task[i].st = "queued"
                /\ task'[i].st = "running")
              => ~Marked(stubs[i].title, markers)
    /\ adapter = "reddit" /\ nDetail' > nDetail
          => ~Marked(stubs[processed].title, markers)
    /\ \A u \in DOMAIN store :
          store'[u] # store[u] => ~Marked(store'[u][1].title, markers)

\* A step that filters items takes every item whose title holds none of the
\* markers as for sale: if the store does not hold its url, the forum run
\* submits it to the pool and the feed run counts it as new.  wanted(s)
\* says which of the others the adapter leaves out as well.
UnmarkedTakenForSale(markers, wanted(_)) ==
    /\ adapter = "forum" /\ pc = "index" /\ pc' = "pool"
          => \E page \in site :
                stubs' = SelectSeq(page,
                            LAMBDA s : /\ ~Marked(s.title, markers)
                                       /\ ~wanted(s)
                                       /\ ~listing_url_exists(store, s.url))
    /\ (/\ adapter = "reddit" /\ pc = "items" /\ pc' = "items"
        /\ processed' = processed + 1
        /\ ~Marked(stubs[processed].title, markers)
        /\ ~wanted(stubs[processed])
        /\ ~listing_url_exists(store, stubs[processed].url))
          => new_on_page' = new_on_page + 1

NoOtherFilter(s) == FALSE

FeedFlairFilter(s) == adapter = "reddit" /\ FlairWanted(s.flair)

\* C27 as stated: no run fetches the detail page of, or upserts, a listing
\* whose title holds one of wtb, iso, in search of, want to buy; every
\* title without one of these is treated as for sale.
FourMarkersDecideWanted ==
    [][/\ WantedNeverImported(FourMarkers)
       /\ UnmarkedTakenForSale(FourMarkers, NoOtherFilter)]_vars

\* C27, amended: the markers are wtb, iso, in search of, want to buy and
\* wantto buy; no run fetches the detail page of, or upserts, a listing
\* whose title holds one of them; an item whose title holds none is taken
\* as for sale, except that the feed run also leaves out a post whose flair
\* holds WTB or ISO.
FiveMarkersAndFlairDecideWanted ==
    [][/\ WantedNeverImported(FiveMarkers)
       /\ UnmarkedTakenForSale(FiveMarkers, FeedFlairFilter)]_vars

\* C27's case: a feed page of a for-sale post and a "WTB" post is done: one
\* detail fetch, one row.
WantedPostPassedOver ==
    /\ adapter = "reddit"
    /\ pc = "items"
    /\ processed > Len(stubs)
    /\ Len(stubs) = 2
    /\ Marked(stubs[2].title, FourMarkers)
    /\ ~Marked(stubs[1].title, FiveMarkers)
    /\ nDetail = 1
    /\ store[stubs[1].url] # None
    /\ store[stubs[2].url] = None

\* C29: when a detail page is fetched but holds no first post body, the
\* forum run counts one error, does not upsert the item, and goes on with
\* the items left.
BodylessPageCountedAndSkipped ==
    [][\A i \in DOMAIN task :
           (/\ i \in DOMAIN task'
            /\ task[i].body = "absent"
            /\ task[i].st = "reporting"
            /\ task'[i].st = "consumed")
           => /\ stats'.errors = stats.errors + 1
              /\ store' = store
              /\ task'[i].upserts = 0
              /\ pc' = "pool"]_vars

\* C29's failing run: the thread whose page held no post body is in the
\* store, and no error is counted.
BodylessPageUpserted ==
    /\ adapter = "forum"
    /\ \E i \in DOMAIN task :
          /\ task[i].body = "absent"
          /\ task[i].st = "consumed"
          /\ store[stubs[i].url] # None
    /\ stats.errors = 0
    /\ stats.new = 1

\* A worker's fetch ends in this step.
FetchEnds ==
    \E i \in DOMAIN task :
        i \in DOMAIN task' /\ task[i].st = "running" /\ task'[i].st = "finished"

\* A failure met in this step, other than one inside a worker, is counted as
\* one error and leaves the store as it was; so does the item of a worker
\* that returned None or raised, when the run takes it up.
ItemFailureCountedAndDropped ==
    /\ faultsLeft' < faultsLeft /\ ~FetchEnds /\ pc' # "raised"
          => stats'.errors = stats.errors + 1 /\ store' = store
    /\ \A i \in DOMAIN task :
          (/\ i \in DOMAIN task'
           /\ task[i].out \in {"none", "raised"}
           /\ task[i].st # "consumed"
           /\ task'[i].st = "consumed")
          => /\ stats'.errors = stats.errors + 1
             /\ store' = store
             /\ task'[i].upserts = 0

\* C30: no failure while a single item is processed aborts the run: after a
\* failed detail fetch, an exception in a worker, a failed pricing lookup,
\* or a store failure at the item's existence check or upsert the run goes
\* on with the items left; each such failure but the pricing's adds one to
\* the error count, and the item is dropped.
NoItemFailureAbortsRun ==
    [][pc' # "raised" /\ ItemFailureCountedAndDropped]_vars

\* C30's failing run: the store failed at an item's existence check and
\* run() raised, with an item of the page still to be processed.
RunAbortedAtExistenceCheck ==
    /\ adapter = "reddit"
    /\ pc = "raised"
    /\ processed <= Len(stubs)
    /\ stats.errors = 0

(***************************************************************************)
(* The backfill: claim C28 under SpecFill.                                 *)
(***************************************************************************)

\* The rows the backfill is for: the feed's rows without a price, as the
\* table stood when the backfill was called.
Unpriced ==
    {id \in DOMAIN atStart :
        /\ atStart[id].source_id = "Reddit r/Watchexchange"
        /\ atStart[id].price = None}

\* The columns the backfill is to leave alone.
Kept(r) ==
    [id |-> r.id, listing_url |-> r.listing_url, source_id |-> r.source_id,
     date_found |-> r.date_found, title |-> r.title, seller |-> r.seller,
     image_url |-> r.image_url, is_active |-> r.is_active]

Examined == tally.updated + tally.skipped + tally.errors

\* C28: the backfill changes only rows of the community feed that had no
\* price; a row it changes has got a price extracted from its title and a
\* comment thread, and keeps listing_url, source_id, date_found, title,
\* seller, image and is_active; a row whose permalink holds no post id is
\* skipped and left as it was, so is a row that is counted as skipped or as
\* an error; every row examined adds one to exactly one of updated, skipped
\* and errors, which add up to the number of rows examined.
BackfillFillsOnlyUnpricedFeedRows ==
    [][/\ DOMAIN watches' = DOMAIN atStart'
       /\ \A id \in DOMAIN watches' :
             watches'[id] # atStart'[id]
                 => /\ id \in Unpriced'
                    /\ Kept(watches'[id]) = Kept(atStart'[id])
                    /\ \E body \in CommentThreads \ {<<>>} :
                          /\ watches'[id].price =
                                extract_price(watches'[id].title
                                                  \o <<Word(" ")>> \o body)
                          /\ watches'[id].price # None
       /\ fillpc' # "called"
             => Examined' + Len(rows') = Cardinality(Unpriced')
       /\ fillpc' = "returned" => Examined' = Cardinality(Unpriced')
       /\ (fillpc = "loop" /\ rows # <<>>)
             => /\ PostIdOf(Head(rows).listing_url) = None
                      => tally'.skipped = tally.skipped + 1
                /\ tally'.updated = tally.updated
                      => watches' = watches
                /\ tally'.updated # tally.updated
                      => /\ tally' = Bump(tally, "updated")
                         /\ watches'[Head(rows).id] # watches[Head(rows).id]
                         /\ \A id \in DOMAIN watches \ {Head(rows).id} :
                               watches'[id] = watches[id]]_vars

\* C28's case: of three unpriced feed rows one was updated, one skipped for
\* its permalink and one met a failing store, next to a priced feed row and
\* a forum row; the updated row kept the year, condition and description
\* it had.
BackfillDoneOnMixedTable ==
    /\ fillpc = "returned"
    /\ DOMAIN watches = DOMAIN StoredRows
    /\ tally = [updated |-> 1, skipped |-> 1, errors |-> 1]
    /\ watches[2].price = Some(850000)
    /\ watches[2].brand = Some("Grand Seiko")
    /\ watches[2].year = Some(1999)
    /\ watches[2].description = atStart[2].description
    /\ watches[1] = atStart[1]

(***************************************************************************)
(* Order within a run and between runs: claim C31 under SpecTurns.         *)
(***************************************************************************)

\* C31: in a forum run the index page N+1 is fetched, and its stubs are
\* filtered against the store, only when every detail fetch submitted for
\* page N is over and every result has been taken up by the run (upserted
\* or counted as an error); run_all_scrapers has at most one adapter's
\* run() under way, the next starting when the previous has returned or
\* raised.
OnePageAndOneSourceAtATime ==
    /\ (adapter = "forum" /\ pc = "index")
          => \A i \in DOMAIN task : task[i].st = "consumed"
    /\ Cardinality(InRun) <= 1
    /\ \A name \in InRun :
          \A other \in started \ {name} :
              \E i \in DOMAIN all_stats : all_stats[i].source = other

\* C31's case: the second index page of a forum run has been fetched; the
\* thread of the first page is in the store and is filtered out of the
\* second.
SecondPageFilteredAfterFirstStored ==
    /\ adapter = "forum"
    /\ nIndex = 2
    /\ pc = "pool"
    /\ stats.new = 1
    /\ stats.pages = 2
    /\ stubs = <<>>
    /\ \E u \in DOMAIN store : store[u] # None

(***************************************************************************)
(* The fetch primitive: claim C32 under SpecGet.                           *)
(***************************************************************************)

Is502(o) == o.kind = "response" /\ o.status = 502

\* C32: through the proxy _get sends at most two requests for a url; it
\* sends the second exactly when the first response has status 502, any
\* other status or a failed request ends the attempts; after a second 502
\* it returns None: no third request, no exception.
ProxyRetriesOnceOn502Only ==
    (got # None /\ wire.proxy) =>
        LET sent == got[1].sent
        IN  /\ Len(sent) \in {1, 2}
            /\ \A n \in DOMAIN sent : sent[n] = wire.answers[n]
            /\ Len(sent) = 2 <=> Is502(wire.answers[1])
            /\ (Len(sent) = 2 /\ Is502(sent[2])) => got[1].result = None
            /\ got[1].result = Get(TRUE, wire.answers[1], wire.answers[2])

\* C32's case: two 502 in a row, and a third request would have been
\* answered with 200.
GaveUpAfterSecond502 ==
    /\ got # None
    /\ wire.proxy
    /\ Is502(wire.answers[1])
    /\ Is502(wire.answers[2])
    /\ wire.answers[3].kind = "response"
    /\ wire.answers[3].status = 200
    /\ Len(got[1].sent) = 2
    /\ got[1].result = None

(***************************************************************************)
(* The comment chosen for a post without a body: claim C33 under SpecPick.  *)
(***************************************************************************)

\* The comments of the fetched thread that are neither deleted nor removed
\* nor the moderator bot's, and those of them the original poster wrote.
UsableAt == {i \in DOMAIN reply.comments : ~Passed(reply.comments[i])}

ByPosterAt ==
    {i \in UsableAt : /\ reply.op_author # ""
                      /\ Lower(reply.comments[i].author)
                             = Lower(reply.op_author)}

\* The body picked is the body of a longest comment among those at idx.
LongestAmong(idx) ==
    \E i \in idx :
        /\ picked[1] = reply.comments[i].body
        /\ \A j \in idx : Chars(reply.comments[j].body)
                              <= Chars(reply.comments[i].body)

PricedAt(idx) == {i \in idx : PriceSearch(reply.comments[i].body)}

FailedAdaptersCountedInErrors ==
    combined # None => combined[1].errors >= Cardinality(failed)

(***************************************************************************)
(* extract_model: claim C40 under SpecExtract.                             *)
(***************************************************************************)

\* The entries of ROLEX_MODELS whose keyword occurs in the text in hand.
ModelHits ==
    {i \in DOMAIN ROLEX_MODELS :
        Occurs(ROLEX_MODELS[i].key, LowerWords(doc))}

\* The model returned is the value of a longest keyword occurring in the
\* text, and none is returned when no keyword occurs.
LongestKeywordReturned ==
    IF ModelHits = {} THEN extracted["model"][1] = None
    ELSE \E i \in ModelHits :
            /\ extracted["model"][1] = Some(ROLEX_MODELS[i].val)
            /\ \A j \in ModelHits : ROLEX_MODELS[j].len <= ROLEX_MODELS[i].len

\* C40 as stated: a model is returned only when a brand is known; for a
\* known brand it is the value of the longest model keyword occurring in
\* the text; with no brand known the result is unknown.
ModelOfLongestKeywordForKnownBrand ==
    extracted["model"] # None =>
        IF extract_brand(doc) = None THEN extracted["model"][1] = None
        ELSE LongestKeywordReturned

\* C40 amended: for the brand Rolex the model is the value of the longest
\* model keyword occurring in the text; for every other brand, and with no
\* brand known, the result is unknown.
ModelOfLongestKeywordForRolex ==
    extracted["model"] # None =>
        IF extract_brand(doc) = Some("Rolex") THEN LongestKeywordReturned
        ELSE extracted["model"][1] = None

\* C40's case: the text holds "explorer ii", and with it "explorer" and an
\* earlier table entry, "submariner"; Explorer II is returned.
ExplorerIINotShadowed ==
    /\ extracted["model"] = Some(Some("Explorer II"))
    /\ Occurs(<<"submariner">>, LowerWords(doc))
    /\ Occurs(<<"explorer", " ", "ii">>, LowerWords(doc))

(***************************************************************************)
(* Priced items and stored items: claim C37 under SpecAdapter.             *)
(***************************************************************************)

\* C37: at every point of a run of either adapter the items-priced counter
\* is at most new + updated: an item is counted as priced only if its
\* upsert succeeded.
PricedAtMostStored ==
    stats.priced <= stats.new + stats.updated

(***************************************************************************)
(* One fetch and one upsert per url: claim C38 under SpecMarkup.           *)
(***************************************************************************)

\* The stubs an index-page fetch submits to the pool are not in the store
\* when the page is filtered.
SubmittedNotInStore ==
    (adapter = "forum" /\ pc = "index" /\ pc' = "pool") =>
        \A i \in DOMAIN stubs' : ~listing_url_exists(store, stubs'[i].url)

\* C38: in a forum-adapter run no url is detail-fetched more than once and
\* none is upserted more than once, whether its thread is marked up in
\* both ways or listed on two pages, and a url that is in the store when
\* its index page is filtered is not detail-fetched.
EachUrlFetchedAndUpsertedOnce ==
    /\ [](\A u \in DOMAIN fetchLog :
             fetchLog[u].fetches <= 1 /\ fetchLog[u].upserts <= 1)
    /\ [][SubmittedNotInStore]_vars

(***************************************************************************)
(* The forum run's counters add up: claim C36 under SpecAdapter.           *)
(***************************************************************************)

\* The stubs submitted to the pool so far: those a worker has taken and
\* those still queued.
Submitted ==
    nDetail + Cardinality({i \in DOMAIN task : task[i].st = "queued"})

\* The submitted stubs whose iteration of the as_completed loop is not over.
Pending ==
    Cardinality({i \in DOMAIN task : task[i].st # "consumed"})

\* 1 when the last index page could not be fetched or held no thread.
IndexFailures ==
    IF lastIndex # None /\ lastIndex[1].result \in {"failed", "empty"}
    THEN 1 ELSE 0

\* C36: in a forum run every stub submitted to the pool is counted once, as
\* new or as updated or as an error: the three counters add up to the stubs
\* whose outcome is known plus the index-page failures (0 or 1), so to the
\* stubs submitted plus the failures when run() returns; and items seen
\* never exceed the stubs submitted.
ForumCountersAddUp ==
    adapter = "forum" =>
        /\ stats.new + stats.updated + stats.errors
               = Submitted - Pending + IndexFailures
        /\ pc = "returned" =>
               stats.new + stats.updated + stats.errors
                   = Submitted + IndexFailures
        /\ stats.threads <= Submitted

\* C36's case: a forum run has returned after a stored stub, a failed stub
\* and a failed index page.
ForumRunOfThreeOutcomes ==
    /\ adapter = "forum"
    /\ pc = "returned"
    /\ Submitted = 2
    /\ IndexFailures = 1
    /\ stats.new + stats.updated = 1
    /\ stats.errors = 2

(***************************************************************************)
(* One scrape run at a time: claim C35 under SpecApp.                      *)
(***************************************************************************)

\* A request answered while a run is in progress is rejected and starts no
\* thread.
RejectedDuringRun ==
    (httpReply' # httpReply /\ InProgress # {}) =>
        /\ httpReply'[1].code = 409
        /\ InProgress' \subseteq InProgress

\* C35: at most one scrape run is in progress at any time; a request that
\* arrives while a run is in progress is rejected and starts no second run;
\* running is true while the run's thread is in _run and false again after
\* every run, completed or failed.
OneScrapeRunAtATime ==
    /\ [](Cardinality(InProgress) <= 1)
    /\ [][RejectedDuringRun]_vars
    /\ []((\A t \in DOMAIN runner : runner[t] \in {"unborn", "ended"})
             => ~scrape_status.running)

(***************************************************************************)
(* Workers racing for one image: claim C34 under SpecRace.                 *)
(***************************************************************************)

\* The workers that have returned a cache path.
GotCachePath ==
    {w \in DOMAIN acquirer :
        acquirer[w].at = <<"done">> /\ acquirer[w].result.kind = "cache"}

\* The file a returned cache path names holds the whole image.
NamesWholeFile(w) ==
    LET ext == acquirer[w].result.path[4]
    IN  ext \in DOMAIN disk /\ disk[ext] = "whole"

\* C34: every cache path a worker has returned, a cache hit met while
\* another worker writes included, names a file that holds the complete
\* image; and when all workers have returned the cache holds exactly one
\* file of the URL's hash.
RaceIsBenign ==
    /\ \A w \in GotCachePath : NamesWholeFile(w)
    /\ (GotCachePath # {} /\ \A w \in DOMAIN acquirer : acquirer[w].at = <<"done">>)
           => Cardinality(DOMAIN disk) = 1

====
